---- MODULE Spec2Model ----
(***************************************************************************)
(* The ephemeral file-exchange service of nwxio/mcp-docs: one-time upload  *)
(* tokens, sharing sessions, the download key codec and the TTL reaper, as *)
(* implemented by files_server.py, unified_server.py, upload_server.py,    *)
(* file_server.py and the MCP servers file_share_server.py and             *)
(* file_upload_server.py.                                                  *)
(*                                                                         *)
(* The persisted state is the content of /files: tokens.json,              *)
(* sessions.json, the uploads directory and one directory per session.     *)
(* Time is the wall clock in whole seconds; datetime.now() and             *)
(* int(time.time()) both read it.                                          *)
(*                                                                         *)
(* Strings that the code takes apart (file names, file contents) are       *)
(* sequences of one-character strings; strings the code only compares      *)
(* (error messages, routes) are TLA+ strings.                              *)
(***************************************************************************)
EXTENDS Integers, Sequences, FiniteSets, TLC

VARIABLES
    variant,      \* which HTTP server program listens on the port
    now,          \* wall clock, seconds
    ticks,        \* number of clock advances so far
    issued,       \* history: token id -> expiry it was issued with
    accepted,     \* history: token id -> the uploads accepted through it
    tokensFile,   \* content of /files/tokens.json: token id -> record
    uploads,      \* /files/uploads: stored name -> bytes
    resp,         \* the response the HTTP server is sending, if any
    wk,           \* upload_server.py: the request each Flask thread works on
    sessionsFile, \* content of /files/sessions.json: session id -> record
    dirs,         \* /files/sessions and /files/shared: name -> directory
    sissued,      \* history: session id -> expiry it was created with
    swept,        \* history: the sessions a finished sweep found expired
    hs,           \* the handler the HTTP server is in, between file accesses
    ms            \* the tool call file_share_server.py is in

uploadVars == <<issued, accepted, tokensFile, uploads, wk>>
shareVars == <<sessionsFile, dirs, sissued, swept, hs, ms>>

vars == <<variant, now, ticks, issued, accepted, tokensFile, uploads, resp, wk,
          sessionsFile, dirs, sissued, swept, hs, ms>>

-----------------------------------------------------------------------------
(* Bounds of the model *)

MaxTokens == 2
MaxTicks == 2
MaxUploads == 2
MaxSessions == 2
MaxFiles == 2
MaxKey == 4

(* Program constants *)

TOKEN_TTL_MINUTES == 30
SESSION_TTL_HOURS == 24
MAX_FILE_SIZE == 50 * 1024 * 1024

TokenTTL == TOKEN_TTL_MINUTES * 60
SessionTTL == SESSION_TTL_HOURS * 3600

-----------------------------------------------------------------------------
(* Values *)

None == <<"null">>            \* JSON null / Python None
EmptyMap == <<>>              \* {} : a mapping with no key
TokenIds == 1..MaxTokens      \* the uuid4 values, in order of allocation

CR == "\\r"
LF == "\\n"

Max(S) == CHOOSE m \in S : \A k \in S : k <= m

get(rec, key) == IF key \in DOMAIN rec THEN rec[key] ELSE None

put(map, key, val) ==
    [k \in DOMAIN map \cup {key} |-> IF k = key THEN val ELSE map[k]]

remove(map, keys) == [k \in DOMAIN map \ keys |-> map[k]]

-----------------------------------------------------------------------------
(* String helpers of the Python runtime, on sequences of characters *)

rfind(p, c) ==
    LET I == {i \in 1..Len(p) : p[i] = c}
    IN  IF I = {} THEN 0 ELSE Max(I)

\* os.path.basename: everything after the last '/'
basename(p) == SubSeq(p, rfind(p, "/") + 1, Len(p))

\* os.path.splitext: split at the last '.', unless only dots precede it
splitext(p) ==
    LET sepIndex == rfind(p, "/")
        dotIndex == rfind(p, ".")
    IN  IF /\ dotIndex > sepIndex
           /\ \E i \in (sepIndex + 1)..(dotIndex - 1) : p[i] # "."
        THEN <<SubSeq(p, 1, dotIndex - 1), SubSeq(p, dotIndex, Len(p))>>
        ELSE <<p, <<>>>>

\* bytes.rstrip(chars) / str.strip(chars)
RECURSIVE rstrip(_, _)
rstrip(s, chars) ==
    IF s # <<>> /\ s[Len(s)] \in chars
    THEN rstrip(SubSeq(s, 1, Len(s) - 1), chars)
    ELSE s

RECURSIVE lstrip(_, _)
lstrip(s, chars) ==
    IF s # <<>> /\ s[1] \in chars THEN lstrip(Tail(s), chars) ELSE s

strip(s, chars) == rstrip(lstrip(s, chars), chars)

\* " ".join-like: str.split() on whitespace then "_".join(...), after the
\* path separators have been replaced by blanks
RECURSIVE joinWords(_, _, _)
joinWords(p, acc, pending) ==
    IF p = <<>> THEN acc
    ELSE IF p[1] = "/"
         THEN joinWords(Tail(p), acc, acc # <<>>)
         ELSE joinWords(Tail(p),
                        (IF pending THEN acc \o <<"_">> ELSE acc) \o <<p[1]>>,
                        FALSE)

\* werkzeug.utils.secure_filename on the ASCII alphabet of the model
secure_filename(p) == strip(joinWords(p, <<>>, FALSE), {".", "_"})

\* f"{name}_{int(time.time())}{ext}"
stamped(nameExt, ts) == nameExt[1] \o <<"_", ToString(ts)>> \o nameExt[2]

\* f"upload_{int(time.time())}"
uploadName(ts) == <<"u", "p", "l", "o", "a", "d", "_", ToString(ts)>>

-----------------------------------------------------------------------------
(* Requests of the clients *)

\* One part of a multipart body, as body.split(b'--' + boundary) yields it:
\* attr says whether the part contains filename=" ; sep whether it contains
\* the blank line \r\n\r\n ; data are the bytes after the blank line.
FilePart(n, c) ==
    [attr |-> "quoted", sep |-> TRUE, filename |-> n, data |-> c \o <<CR, LF>>]
FieldPart ==
    [attr |-> "none", sep |-> TRUE, filename |-> <<>>, data |-> <<"v", CR, LF>>]

\* the files the clients upload: client-side name and bytes; the second is
\* a line of text of 60 bytes, line feed included
ClientFiles ==
    { <<<<"a", ".", "t">>, <<"x">>>>,
      <<<<"a", ".", "t">>, [i \in 1..59 |-> "y"] \o <<LF>>>> }

Multipart == [multipart |-> TRUE, boundary |-> TRUE]
NoBoundary == [multipart |-> TRUE, boundary |-> FALSE]
NotMultipart == [multipart |-> FALSE, boundary |-> FALSE]

Request(cl, ctype, body) == [cl |-> cl, ctype |-> ctype, body |-> body]

AFile == <<FilePart(<<"a", ".", "t">>, <<"x">>)>>

UploadRequests ==
    { Request(1024, Multipart, <<FilePart(f[1], f[2])>>) : f \in ClientFiles }
    \cup
    { Request(1024, Multipart, <<FieldPart>>),
      Request(MAX_FILE_SIZE, Multipart, AFile),
      Request(MAX_FILE_SIZE + 1, Multipart, AFile),
      Request(MAX_FILE_SIZE + 1, NotMultipart, AFile),
      Request(1024, NoBoundary, AFile),
      Request(1024, NotMultipart, AFile) }

-----------------------------------------------------------------------------
(* Token registry: the code shared by the handlers *)

\* now > datetime.fromisoformat(data['expires'])
expired(clock, data) == clock > data.expires

\* data.get('used') is truthy
is_used(data) == "used" \in DOMAIN data /\ data.used

\* the outcome of a handler: the response and the files it leaves behind
Outcome(code, err, data, toks, ups) ==
    [code |-> code, err |-> err, data |-> data, tokens |-> toks, uploads |-> ups]

NoData == [none |-> TRUE]
NoFile == [found |-> FALSE]

\* a completion that forgets the size
markUsed_noSize(data, filename, at, size) ==
    put(put(put(data, "used", TRUE), "filename", filename), "uploaded_at", at)

\* a completion that records the file but forgets the used flag
markUsed_keepsUnused(data, filename, at, size) ==
    put(put(put(data, "filename", filename), "uploaded_at", at), "size", size)

\* tokens[token]['used'] = True ; ['filename'] ; ['uploaded_at'] ; ['size']
markUsed(data, filename, at, size) ==
    put(put(put(put(data, "used", TRUE), "filename", filename),
            "uploaded_at", at), "size", size)

\* with open(filepath, 'wb') as f: f.write(file_content)
writeFile(dir, name, bytes) == put(dir, name, bytes)

-----------------------------------------------------------------------------
(* files_server.py: the token handlers of FileHandler *)

Min(S) == CHOOSE m \in S : \A k \in S : m <= k

\* for part in parts: the first part that contains filename=" and a blank
\* line; a part without blank line is skipped (continue)
parse_multipart(parts) ==
    LET I == {i \in 1..Len(parts) : parts[i].attr = "quoted" /\ parts[i].sep}
    IN  IF I = {} THEN NoFile
        ELSE [found |-> TRUE,
              filename |-> parts[Min(I)].filename,
              content |-> rstrip(parts[Min(I)].data, {CR, LF, "-"})]

\* a name that keeps the directory components of the client
safe_name_keepsDirs(filename, ts) ==
    stamped(splitext(IF filename = <<>> THEN uploadName(ts) ELSE filename), ts)

\* safe_name = os.path.basename(filename) ... f"{name}_{int(time.time())}{ext}"
safe_name(filename, ts) ==
    LET base == basename(filename)
    IN  stamped(splitext(IF base = <<>> THEN uploadName(ts) ELSE base), ts)

\* a validation that looks at the used flag only
refused_ignoresExpiry(clock, data) == is_used(data)

\* the token is refused: expired or already used
refused(clock, data) == expired(clock, data) \/ is_used(data)

\* a size check that is off by one
too_large_offByOne(cl) == cl > MAX_FILE_SIZE + 1

\* content_length > MAX_FILE_SIZE
too_large(cl) == cl > MAX_FILE_SIZE

handle_upload(toks, ups, token, req, clock) ==
    IF token \notin DOMAIN toks
    THEN Outcome(400, "Invalid token", NoData, toks, ups)
    ELSE IF refused(clock, toks[token])
    THEN Outcome(400, "Token expired or used", NoData, toks, ups)
    ELSE IF too_large(req.cl)
    THEN Outcome(400, "File too large (max 50MB)", NoData, toks, ups)
    ELSE IF ~req.ctype.multipart
    THEN Outcome(400, "Expected multipart/form-data", NoData, toks, ups)
    ELSE IF ~req.ctype.boundary
    THEN Outcome(400, "Invalid boundary", NoData, toks, ups)
    ELSE LET file == parse_multipart(req.body)
         IN  IF ~file.found \/ file.filename = <<>>
             THEN Outcome(400, "No file in request", NoData, toks, ups)
             ELSE LET name == safe_name(file.filename, clock)
                  IN  Outcome(200, "", [filename |-> name],
                              put(toks, token,
                                  markUsed(toks[token], name, clock,
                                           Len(file.content))),
                              writeFile(ups, name, file.content))

\* tokens[token] = {'created', 'expires', 'description', 'used': False}
\* a token that expires the moment it is issued
new_token_noTTL(clock) ==
    [created |-> clock, expires |-> clock, used |-> FALSE]

new_token(clock) ==
    [created |-> clock, expires |-> clock + TokenTTL, used |-> FALSE]

\* a sweep that spares the tokens that were used
cleanup_tokens_sparesUsed(toks, clock) ==
    remove(toks, {t \in DOMAIN toks : expired(clock, toks[t]) /\ ~is_used(toks[t])})

\* cleanup_tokens(): drop every token with now > expires, then save
cleanup_tokens(toks, clock) ==
    remove(toks, {t \in DOMAIN toks : expired(clock, toks[t])})

\* create_token(): sweep, then register a fresh uuid4
create_token(toks, token, clock) ==
    put(cleanup_tokens(toks, clock), token, new_token(clock))

\* create_upload_link_and_redirect(): registers a token without a sweep
create_upload_link_and_redirect(toks, token, clock) ==
    put(toks, token, new_token(clock))

\* check_token(): the JSON answer of /api/check/<token>
check_token(toks, token, clock) ==
    IF token \notin DOMAIN toks
    THEN [exists |-> FALSE, error |-> "Invalid token"]
    ELSE [exists |-> TRUE,
          used |-> is_used(toks[token]),
          filename |-> get(toks[token], "filename"),
          expires |-> toks[token].expires,
          expired |-> expired(clock, toks[token])]

\* an upload page that does not look at 'used'
show_upload_page_ignoresUsed(toks, token, clock) ==
    IF token \notin DOMAIN toks
    THEN [code |-> 400, err |-> "Invalid or expired link", page |-> "error"]
    ELSE IF expired(clock, toks[token])
    THEN [code |-> 400, err |-> "Link expired", page |-> "error"]
    ELSE [code |-> 200, err |-> "", page |-> "form"]

\* show_upload_page(): the upload form or an error page
show_upload_page(toks, token, clock) ==
    IF token \notin DOMAIN toks
    THEN [code |-> 400, err |-> "Invalid or expired link", page |-> "error"]
    ELSE IF expired(clock, toks[token])
    THEN [code |-> 400, err |-> "Link expired", page |-> "error"]
    ELSE IF is_used(toks[token])
    THEN [code |-> 400, err |-> "Link already used", page |-> "error"]
    ELSE [code |-> 200, err |-> "", page |-> "form"]

-----------------------------------------------------------------------------
(* unified_server.py: the token handlers of UnifiedHandler *)

\* for part in parts: the first part that contains filename= ; the name is
\* what follows filename=" (IndexError if the quote is missing); a part
\* without blank line has empty content
unified_parse_multipart(parts) ==
    LET I == {i \in 1..Len(parts) : parts[i].attr \in {"quoted", "unquoted"}}
    IN  IF I = {} THEN NoFile
        ELSE IF parts[Min(I)].attr = "unquoted" THEN [found |-> TRUE, raised |-> TRUE]
        ELSE [found |-> TRUE, raised |-> FALSE,
              filename |-> parts[Min(I)].filename,
              content |-> IF parts[Min(I)].sep
                          THEN rstrip(parts[Min(I)].data, {CR, LF})
                          ELSE <<>>]

\* secure_filename(filename) or f"upload_{int(time.time())}", then the stamp
unified_safe_name(filename, ts) ==
    LET base == secure_filename(filename)
    IN  stamped(splitext(IF base = <<>> THEN uploadName(ts) ELSE base), ts)

\* an exception leaves do_POST: the connection is closed without a response
Raised(toks, ups) == Outcome(0, "exception", NoData, toks, ups)

unified_upload(toks, ups, token, req, clock) ==
    IF token \notin DOMAIN toks
    THEN Outcome(400, "Invalid token", NoData, toks, ups)
    ELSE IF refused(clock, toks[token])
    THEN Outcome(400, "Token expired or used", NoData, toks, ups)
    ELSE IF too_large(req.cl)
    THEN Outcome(400, "File too large", NoData, toks, ups)
    ELSE IF ~req.ctype.multipart
    THEN Outcome(400, "No multipart form data", NoData, toks, ups)
    ELSE IF ~req.ctype.boundary
    THEN Raised(toks, ups)
    ELSE LET file == unified_parse_multipart(req.body)
         IN  IF file.found /\ file.raised
             THEN Raised(toks, ups)
             ELSE IF ~file.found \/ file.filename = <<>>
             THEN Outcome(400, "No file in request", NoData, toks, ups)
             ELSE LET name == unified_safe_name(file.filename, clock)
                  IN  Outcome(200, "", [filename |-> name],
                              put(toks, token,
                                  markUsed(toks[token], name, clock,
                                           Len(file.content))),
                              writeFile(ups, name, file.content))

\* tokens[token] = {..., 'expires_ts', 'used': False, 'filename': None}
unified_new_token(clock) ==
    [created |-> clock, expires |-> clock + TokenTTL,
     expires_ts |-> clock + TokenTTL, used |-> FALSE, filename |-> None]

\* cleanup_expired_tokens(): the file is rewritten only if a token expired
cleanup_expired_tokens(toks, clock) ==
    LET dead == {t \in DOMAIN toks : expired(clock, toks[t])}
    IN  IF dead # {} THEN remove(toks, dead) ELSE toks

unified_create_token(toks, token, clock) ==
    put(cleanup_expired_tokens(toks, clock), token, unified_new_token(clock))

\* GET /upload/<token>: every page is sent with status 200
unified_upload_page(toks, token, clock) ==
    IF token \notin DOMAIN toks \/ expired(clock, toks[token]) \/ is_used(toks[token])
    THEN [code |-> 200, err |-> "Invalid Link", page |-> "error"]
    ELSE [code |-> 200, err |-> "", page |-> "form"]

-----------------------------------------------------------------------------
(* file_upload_server.py: the check_upload tool of the MCP upload server *)

\* os.path.getsize(filepath) if os.path.exists(filepath) else 0
getsize(ups, name) == IF name \in DOMAIN ups THEN Len(ups[name]) ELSE 0

\* f"{size / 1024:.1f} KB": the size in tenths of a KB, rounded half to even
kb(size) ==
    LET q == (size * 10) \div 1024
        r == (size * 10) % 1024
    IN  IF r > 512 \/ (r = 512 /\ q % 2 = 1) THEN q + 1 ELSE q

\* a reading that looks at 'used' before 'expired'
check_upload_usedFirst(result, ups) ==
    IF "error" \in DOMAIN result /\ ~result.exists
    THEN [status |-> "NotFound"]
    ELSE IF result.used
    THEN IF result.filename = None \/ result.filename = <<>>
         THEN [status |-> "Error"]
         ELSE [status |-> "Used", filename |-> result.filename,
               size |-> kb(getsize(ups, result.filename))]
    ELSE IF result.expired THEN [status |-> "Expired"]
    ELSE [status |-> "Pending"]

\* call_tool("check_upload"): reads the answer of /api/check/<token>
check_upload(result, ups) ==
    IF "error" \in DOMAIN result /\ ~result.exists
    THEN [status |-> "NotFound"]
    ELSE IF result.expired THEN [status |-> "Expired"]
    ELSE IF result.used
    THEN IF result.filename = None \/ result.filename = <<>>
         THEN [status |-> "Error"]
         ELSE [status |-> "Used", filename |-> result.filename,
               size |-> kb(getsize(ups, result.filename))]
    ELSE [status |-> "Pending"]

-----------------------------------------------------------------------------
(* files_server.py: the download key, base64url of "<sid>/<filename>".     *)
(* A text is a sequence of characters, as elsewhere; bytes are numbers     *)
(* 0..255; a key is a sequence of key characters: the 64 base64url symbols *)
(* by their value, and the characters named below.                         *)

\* '=' ; an ASCII character that is neither a base64 symbol nor a blank ;
\* a character that is not ASCII
PAD == 64
JUNK == 65
NONASCII == 66

\* str(sid) of a session id
sidStr(sid) == <<ToString(sid)>>

\* s.split('/', 1): the text before the first '/' and, if there is a '/',
\* the text after it
split1(s) ==
    LET I == {i \in 1..Len(s) : s[i] = "/"}
    IN  IF I = {} THEN <<s>>
        ELSE <<SubSeq(s, 1, Min(I) - 1), SubSeq(s, Min(I) + 1, Len(s))>>

\* ord(c) for the characters of the model; "U+233" is the letter e with an
\* acute accent
ord(c) ==
    CASE c = "/" -> 47 [] c = "." -> 46 [] c = "%" -> 37 [] c = " " -> 32
      [] c = "0" -> 48 [] c = "1" -> 49 [] c = "2" -> 50 [] c = "3" -> 51
      [] c = "4" -> 52 [] c = "5" -> 53 [] c = "6" -> 54 [] c = "7" -> 55
      [] c = "8" -> 56 [] c = "9" -> 57
      [] c = "a" -> 97 [] c = "f" -> 102 [] c = "t" -> 116 [] c = "x" -> 120
      [] c = "U+233" -> 233

\* str.encode('utf-8'): one byte below 128, two bytes below 2048
RECURSIVE utf8_encode(_)
utf8_encode(text) ==
    IF text = <<>> THEN <<>>
    ELSE (IF ord(text[1]) < 128 THEN <<ord(text[1])>>
          ELSE <<192 + (ord(text[1]) \div 64), 128 + (ord(text[1]) % 64)>>)
         \o utf8_encode(Tail(text))

\* bytes.decode('utf-8'): the characters, or ok = FALSE (UnicodeDecodeError)
\* on a byte that starts or continues no well-formed sequence
RECURSIVE utf8_decode(_, _)
utf8_decode(b, text) ==
    LET known == {"/", ".", "%", " ", "0", "1", "2", "3", "4", "5", "6", "7",
                  "8", "9", "a", "f", "t", "x", "U+233"}
        chr(cp) == IF \E c \in known : ord(c) = cp
                   THEN CHOOSE c \in known : ord(c) = cp
                   ELSE "U+" \o ToString(cp)
        cont(i) == Len(b) >= i /\ b[i] \in 128..191
    IN  IF b = <<>> THEN [ok |-> TRUE, text |-> text]
        ELSE IF b[1] < 128
        THEN utf8_decode(Tail(b), Append(text, chr(b[1])))
        ELSE IF b[1] \in 194..223 /\ cont(2)
        THEN utf8_decode(SubSeq(b, 3, Len(b)),
                         Append(text, chr((b[1] - 192) * 64 + (b[2] - 128))))
        ELSE IF /\ b[1] \in 224..239 /\ cont(2) /\ cont(3)
                /\ b[1] = 224 => b[2] >= 160
                /\ b[1] = 237 => b[2] <= 159
        THEN utf8_decode(SubSeq(b, 4, Len(b)),
                         Append(text, chr((b[1] - 224) * 4096
                                          + (b[2] - 128) * 64 + (b[3] - 128))))
        ELSE IF /\ b[1] \in 240..244 /\ cont(2) /\ cont(3) /\ cont(4)
                /\ b[1] = 240 => b[2] >= 144
                /\ b[1] = 244 => b[2] <= 143
        THEN utf8_decode(SubSeq(b, 5, Len(b)),
                         Append(text, chr((b[1] - 240) * 262144
                                          + (b[2] - 128) * 4096
                                          + (b[3] - 128) * 64 + (b[4] - 128))))
        ELSE [ok |-> FALSE, text |-> <<>>]

\* base64.urlsafe_b64encode(raw): four symbols for three bytes, '=' padding
RECURSIVE urlsafe_b64encode(_)
urlsafe_b64encode(b) ==
    IF b = <<>> THEN <<>>
    ELSE IF Len(b) = 1
    THEN <<b[1] \div 4, (b[1] % 4) * 16, PAD, PAD>>
    ELSE IF Len(b) = 2
    THEN <<b[1] \div 4, ((b[1] % 4) * 16) + (b[2] \div 16), (b[2] % 16) * 4, PAD>>
    ELSE <<b[1] \div 4, ((b[1] % 4) * 16) + (b[2] \div 16),
           ((b[2] % 16) * 4) + (b[3] \div 64), b[3] % 64>>
         \o urlsafe_b64encode(SubSeq(b, 4, Len(b)))

\* base64.urlsafe_b64decode(padded), i.e. binascii.a2b_base64 without
\* validation: characters outside the alphabet are skipped, a complete pad
\* sequence ends the decoding, an incomplete quad at the end is an error
RECURSIVE urlsafe_b64decode(_, _, _, _, _)
urlsafe_b64decode(k, quad, left, pads, out) ==
    IF k = <<>>
    THEN [ok |-> quad = 0, bytes |-> out]
    ELSE IF k[1] = PAD
    THEN IF quad >= 2 /\ quad + pads + 1 >= 4
         THEN [ok |-> TRUE, bytes |-> out]
         ELSE urlsafe_b64decode(Tail(k), quad, left,
                                IF quad >= 2 THEN pads + 1 ELSE pads, out)
    ELSE IF k[1] \notin 0..63
    THEN urlsafe_b64decode(Tail(k), quad, left, pads, out)
    ELSE CASE quad = 0 -> urlsafe_b64decode(Tail(k), 1, k[1], 0, out)
           [] quad = 1 -> urlsafe_b64decode(Tail(k), 2, k[1] % 16, 0,
                              Append(out, (left * 4) + (k[1] \div 16)))
           [] quad = 2 -> urlsafe_b64decode(Tail(k), 3, k[1] % 4, 0,
                              Append(out, (left * 16) + (k[1] \div 4)))
           [] quad = 3 -> urlsafe_b64decode(Tail(k), 0, 0, 0,
                              Append(out, (left * 64) + k[1]))

\* a key made of the two texts with nothing between them
encode_download_key_unseparated(session_id, filename) ==
    rstrip(urlsafe_b64encode(utf8_encode(session_id \o filename)), {PAD})

\* encode_download_key(session_id, filename)
encode_download_key(session_id, filename) ==
    rstrip(urlsafe_b64encode(utf8_encode(session_id \o <<"/">> \o filename)),
           {PAD})

\* the answer (None, None)
NoPair == [ok |-> FALSE, sid |-> <<>>, filename |-> <<>>]

\* a decoder that returns the two halves as they are
decode_download_key_unchecked(key) ==
    LET padded == key \o [i \in 1..((4 - (Len(key) % 4)) % 4) |-> PAD]
        raw == urlsafe_b64decode(padded, 0, 0, 0, <<>>)
        text == utf8_decode(raw.bytes, <<>>)
        halves == split1(text.text)
    IN  IF NONASCII \in {key[i] : i \in 1..Len(key)} \/ ~raw.ok \/ ~text.ok
        THEN NoPair
        ELSE [ok |-> TRUE, sid |-> halves[1],
              filename |-> IF Len(halves) = 2 THEN halves[2] ELSE <<>>]

\* decode_download_key(key): padding, base64, UTF-8, split at the first '/',
\* basename of each half; any exception and any empty half give (None, None)
decode_download_key(key) ==
    LET padded == key \o [i \in 1..((4 - (Len(key) % 4)) % 4) |-> PAD]
        raw == urlsafe_b64decode(padded, 0, 0, 0, <<>>)
        text == utf8_decode(raw.bytes, <<>>)
        halves == split1(text.text)
    IN  IF NONASCII \in {key[i] : i \in 1..Len(key)} \/ ~raw.ok \/ ~text.ok
        THEN NoPair
        ELSE IF Len(halves) < 2
        THEN NoPair
        ELSE IF basename(halves[1]) = <<>> \/ basename(halves[2]) = <<>>
        THEN NoPair
        ELSE [ok |-> TRUE, sid |-> basename(halves[1]),
              filename |-> basename(halves[2])]

\* show_download_bridge(key): the page that leads to /<sid>/<filename>, or
\* the error page
show_download_bridge(key) ==
    LET pair == decode_download_key(key)
    IN  IF ~pair.ok
        THEN [code |-> 400, err |-> "Invalid download link", data |-> NoData]
        ELSE [code |-> 200, err |-> "",
              data |-> [sid |-> pair.sid, filename |-> pair.filename]]

-----------------------------------------------------------------------------
(* Sessions: sessions.json and the session directories are shared by the   *)
(* HTTP server and by the MCP share server file_share_server.py, which is  *)
(* another process: the two interleave at every access to the files.       *)

SessionIds == 1..MaxSessions

\* arguments.get("session_id") is None
NoSession == 0

SESSIONS_DIR == "sessions"
SHARED_DIR == "shared"

NoDirs == [root \in {SESSIONS_DIR, SHARED_DIR} |-> EmptyMap]

\* the file the clients share
AName == <<"f">>
AContent == <<"x">>

\* sessions[sid] = {'created', 'expires', 'description', 'files'}
new_session(clock, files) ==
    [created |-> clock, expires |-> clock + SessionTTL, files |-> files]

\* the sessions whose expiry has passed
overdue(sess, clock) == {s \in DOMAIN sess : expired(clock, sess[s])}

\* shutil.rmtree(os.path.join(root, sid)) when the path exists
rmtree(d, root, sids) == [d EXCEPT ![root] = remove(d[root], sids)]

\* os.makedirs(os.path.join(SESSIONS_DIR, sid), exist_ok=True)
makedirs(d, sid) ==
    IF sid \in DOMAIN d[SESSIONS_DIR] THEN d
    ELSE [d EXCEPT ![SESSIONS_DIR] = put(d[SESSIONS_DIR], sid, EmptyMap)]

\* a file is written into an existing session directory
writeInto(d, sid, name, bytes) ==
    [d EXCEPT ![SESSIONS_DIR] = put(d[SESSIONS_DIR], sid,
                                    put(d[SESSIONS_DIR][sid], name, bytes))]

\* os.path.isfile(os.path.join(SESSIONS_DIR, sid, filename))
isfile(d, sid, name) ==
    sid \in DOMAIN d[SESSIONS_DIR] /\ name \in DOMAIN d[SESSIONS_DIR][sid]

\* files_server.py cleanup_sessions(): the directory is looked for under
\* SHARED_DIR, and sessions.json is always rewritten
cleanup_sessions(sess, d, clock) ==
    LET dead == overdue(sess, clock)
    IN  [sessions |-> remove(sess, dead), dirs |-> rmtree(d, SHARED_DIR, dead),
         dead |-> dead, save |-> TRUE]

\* a sweep that removes the sessions that are at their expiry as well
cleanup_expired_sessions_atExpiry(sess, d, clock) ==
    LET dead == {s \in DOMAIN sess : clock >= sess[s].expires}
    IN  [sessions |-> remove(sess, dead), dirs |-> rmtree(d, SESSIONS_DIR, dead),
         dead |-> dead, save |-> dead # {}]

\* unified_server.py cleanup_expired_sessions(): sessions.json is rewritten
\* only if a session expired
cleanup_expired_sessions(sess, d, clock) ==
    LET dead == overdue(sess, clock)
    IN  [sessions |-> remove(sess, dead), dirs |-> rmtree(d, SESSIONS_DIR, dead),
         dead |-> dead, save |-> dead # {}]

\* file_share_server.py cleanup_expired_sessions(): the same code
share_cleanup_expired_sessions(sess, d, clock) ==
    LET dead == overdue(sess, clock)
    IN  [sessions |-> remove(sess, dead), dirs |-> rmtree(d, SESSIONS_DIR, dead),
         dead |-> dead, save |-> dead # {}]

server_cleanup(sess, d, clock) ==
    IF variant = "files" THEN cleanup_sessions(sess, d, clock)
    ELSE cleanup_expired_sessions(sess, d, clock)

\* files_server.py do_GET, /<sid>: show_session
show_session(sess, d, sid) ==
    IF sid \notin DOMAIN d[SESSIONS_DIR] THEN [code |-> 404, err |-> "Session not found", data |-> NoData]
    ELSE IF sid \notin DOMAIN sess THEN [code |-> 404, err |-> "Session not found", data |-> NoData]
    ELSE [code |-> 200, err |-> "", data |-> [files |-> sess[sid].files]]

\* files_server.py do_GET, /<sid>/<filename>: download_file
download_file(d, sid, name) ==
    IF sid \notin DOMAIN d[SESSIONS_DIR] THEN [code |-> 404, err |-> "Session not found", data |-> NoData]
    ELSE IF ~isfile(d, sid, name) THEN [code |-> 404, err |-> "File not found", data |-> NoData]
    ELSE [code |-> 200, err |-> "", data |-> [bytes |-> d[SESSIONS_DIR][sid][name]]]

\* unified_server.py do_GET, /<sid>: list_session_files
list_session_files(sess, d, sid) ==
    IF sid \notin DOMAIN d[SESSIONS_DIR] THEN [code |-> 404, err |-> "Session not found", data |-> NoData]
    ELSE IF sid \notin DOMAIN sess THEN [code |-> 404, err |-> "Session not found", data |-> NoData]
    ELSE [code |-> 200, err |-> "", data |-> [files |-> sess[sid].files]]

\* unified_server.py do_GET, /<sid>/<filename>: serve_file
serve_file(d, sid, name) ==
    IF sid \notin DOMAIN d[SESSIONS_DIR] THEN [code |-> 404, err |-> "Session not found", data |-> NoData]
    ELSE IF ~isfile(d, sid, name) THEN [code |-> 404, err |-> "File not found", data |-> NoData]
    ELSE [code |-> 200, err |-> "", data |-> [bytes |-> d[SESSIONS_DIR][sid][name]]]

-----------------------------------------------------------------------------
(* The HTTP server on the port: socketserver.TCPServer handles one request *)
(* at a time, so each handler is one step.                                 *)

Variants == {"files", "unified"}

\* the threads of the Flask server of upload_server.py
Workers == {"w1", "w2"}
IdleWorker == [pc |-> "idle"]

\* the server waits in accept(): no request is being answered
NoResponse == [op |-> "none", arg |-> 0, code |-> 0, err |-> "", data |-> NoData]

Idle == resp = NoResponse

Respond(op, arg, code, err, data) ==
    /\ Idle
    /\ resp' = [op |-> op, arg |-> arg, code |-> code, err |-> err, data |-> data]

\* the response has been written to the socket; the next request is accepted
Done ==
    /\ ~Idle
    /\ resp' = NoResponse
    /\ UNCHANGED <<variant, now, ticks, issued, accepted, tokensFile, uploads, wk>>
    /\ UNCHANGED shareVars

\* str(uuid.uuid4()): a value never returned before
uuid4 == Cardinality(DOMAIN issued) + 1

Init ==
    /\ variant \in Variants
    /\ now = 0
    /\ ticks = 0
    /\ issued = EmptyMap
    /\ accepted = EmptyMap
    /\ tokensFile = EmptyMap
    /\ uploads = EmptyMap
    /\ resp = NoResponse
    /\ wk = [w \in Workers |-> IdleWorker]
    /\ sessionsFile = EmptyMap
    /\ dirs = NoDirs
    /\ sissued = EmptyMap
    /\ swept = {}
    /\ hs = IdleWorker
    /\ ms = IdleWorker

\* the clock advances
Advance(d) ==
    /\ ticks < MaxTicks
    /\ now' = now + d
    /\ ticks' = ticks + 1

\* second 0 is the moment the first token is issued
Tick ==
    /\ Idle
    /\ issued # EmptyMap
    /\ \E d \in {1, TokenTTL} : Advance(d)
    /\ UNCHANGED <<variant, issued, accepted, tokensFile, uploads, resp, wk>>
    /\ UNCHANGED shareVars

\* POST /api/create_token
POST_create_token ==
    /\ uuid4 <= MaxTokens
    /\ LET token == uuid4
           toks == IF variant = "files"
                   THEN create_token(tokensFile, token, now)
                   ELSE unified_create_token(tokensFile, token, now)
       IN  /\ tokensFile' = toks
           /\ issued' = put(issued, token, toks[token].expires)
           /\ accepted' = put(accepted, token, <<>>)
           /\ Respond("create_token", token, 200, "",
                      [token |-> token, expires |-> toks[token].expires])
    /\ UNCHANGED <<variant, now, ticks, uploads, wk>>
    /\ UNCHANGED shareVars

\* GET /Загрузи (files_server.py only)
GET_upload_link ==
    /\ variant = "files"
    /\ uuid4 <= MaxTokens
    /\ LET token == uuid4
           toks == create_upload_link_and_redirect(tokensFile, token, now)
       IN  /\ tokensFile' = toks
           /\ issued' = put(issued, token, toks[token].expires)
           /\ accepted' = put(accepted, token, <<>>)
           /\ Respond("upload_link", token, 302, "", [token |-> token])
    /\ UNCHANGED <<variant, now, ticks, uploads, wk>>
    /\ UNCHANGED shareVars

\* a handler that consumes the token whenever the upload fails
server_upload_consumes(toks, ups, token, req, clock) ==
    LET out == IF variant = "files"
               THEN handle_upload(toks, ups, token, req, clock)
               ELSE unified_upload(toks, ups, token, req, clock)
    IN  IF out.code = 200 \/ token \notin DOMAIN toks THEN out
        ELSE [out EXCEPT !.tokens = put(toks, token, put(toks[token], "used", TRUE))]

\* POST /upload/<token>
server_upload(toks, ups, token, req, clock) ==
    IF variant = "files"
    THEN handle_upload(toks, ups, token, req, clock)
    ELSE unified_upload(toks, ups, token, req, clock)

POST_upload(token, req) ==
    LET out == server_upload(tokensFile, uploads, token, req, now)
    IN  /\ tokensFile' = out.tokens
        /\ uploads' = out.uploads
        /\ accepted' =
              IF out.code = 200
              THEN put(accepted, token,
                       Append(accepted[token],
                              [name |-> out.data.filename,
                               bytes |-> out.uploads[out.data.filename],
                               ok |-> TRUE]))
              ELSE accepted
        /\ Respond("upload", token, out.code, out.err, out.data)
        /\ UNCHANGED <<variant, now, ticks, issued, wk>>
        /\ UNCHANGED shareVars

\* GET /upload/<token>
GET_upload(token) ==
    LET page == IF variant = "files"
                THEN show_upload_page(tokensFile, token, now)
                ELSE unified_upload_page(tokensFile, token, now)
    IN  /\ Respond("upload_page", token, page.code, page.err, [page |-> page.page])
        /\ UNCHANGED <<variant, now, ticks, issued, accepted, tokensFile, uploads, wk>>
        /\ UNCHANGED shareVars

\* GET or POST /api/check/<token>; unified_server.py has the route in
\* do_POST only, its do_GET takes the path for a session and answers 404
server_check(toks, token, method, clock) ==
    IF variant = "unified" /\ method = "GET"
    THEN [code |-> 404, err |-> "Session not found", data |-> NoData]
    ELSE [code |-> 200, err |-> "", data |-> check_token(toks, token, clock)]

\* a check that reaps the token it finds expired, as use_token does
API_check_reaps(token, method) ==
    LET r == server_check(tokensFile, token, method, now)
    IN  /\ Respond("check", token, r.code, r.err, r.data)
        /\ tokensFile' = IF token \in DOMAIN tokensFile
                            /\ expired(now, tokensFile[token])
                         THEN remove(tokensFile, {token}) ELSE tokensFile
        /\ UNCHANGED <<variant, now, ticks, issued, accepted, uploads, wk>>
        /\ UNCHANGED shareVars

API_check(token, method) ==
    LET r == server_check(tokensFile, token, method, now)
    IN  /\ Respond("check", token, r.code, r.err, r.data)
        /\ UNCHANGED <<variant, now, ticks, issued, accepted, tokensFile, uploads, wk>>
        /\ UNCHANGED shareVars

\* requests.get(.../api/check/<token>) of file_upload_server.check_token
mcp_check_token(toks, token, clock) ==
    LET r == server_check(toks, token, "GET", clock)
    IN  IF r.code = 200 THEN r.data
        ELSE [exists |-> FALSE, error |-> "API error"]

\* the check_upload tool of the MCP upload server
TOOL_check_upload(token) ==
    /\ Respond("check_upload", token, 200, "",
               check_upload(mcp_check_token(tokensFile, token, now), uploads))
    /\ UNCHANGED <<variant, now, ticks, issued, accepted, tokensFile, uploads, wk>>
    /\ UNCHANGED shareVars

\* __main__: the server is (re)started and sweeps the two registries
Startup ==
    /\ Idle
    /\ LET c == server_cleanup(sessionsFile, dirs, now)
       IN  /\ sessionsFile' = IF c.save THEN c.sessions ELSE sessionsFile
           /\ dirs' = c.dirs
           /\ swept' = swept \cup c.dead
    /\ tokensFile' = IF variant = "files"
                     THEN cleanup_tokens(tokensFile, now)
                     ELSE cleanup_expired_tokens(tokensFile, now)
    /\ UNCHANGED <<variant, now, ticks, issued, accepted, uploads, resp, wk>>
    /\ UNCHANGED <<sissued, hs, ms>>

Next ==
    \/ Tick
    \/ POST_create_token
    \/ GET_upload_link
    \/ \E token \in TokenIds, req \in UploadRequests : POST_upload(token, req)
    \/ \E token \in TokenIds : GET_upload(token)
    \/ \E token \in TokenIds, method \in {"GET", "POST"} : API_check(token, method)
    \/ \E token \in TokenIds : TOOL_check_upload(token)
    \/ Startup
    \/ Done

Spec == Init /\ [][Next]_vars

-----------------------------------------------------------------------------
(* upload_server.py: the Flask application. app.run() answers every        *)
(* request in a thread of its own, so a handler is a sequence of steps,    *)
(* one for each access to tokens.json or to the uploads directory.         *)

\* use_token(token): the verdict, and the registry it saves when it reaps
use_token(toks, token, clock) ==
    IF token \notin DOMAIN toks
    THEN [valid |-> FALSE, msg |-> "Invalid token", save |-> FALSE]
    ELSE IF expired(clock, toks[token])
    THEN [valid |-> FALSE, msg |-> "Token expired", save |-> TRUE,
          tokens |-> remove(toks, {token})]
    ELSE IF toks[token].used
    THEN [valid |-> FALSE, msg |-> "Token already used", save |-> FALSE]
    ELSE [valid |-> TRUE, msg |-> "", save |-> FALSE]

\* request.files.get('file'): the form parser takes the first file part and
\* its bytes up to the line break that precedes the boundary
request_files(req) ==
    LET I == {i \in 1..Len(req.body) : req.body[i].attr \in {"quoted", "unquoted"}}
    IN  IF ~req.ctype.multipart \/ ~req.ctype.boundary \/ I = {}
        THEN NoFile
        ELSE [found |-> TRUE,
              filename |-> req.body[Min(I)].filename,
              content |-> SubSeq(req.body[Min(I)].data, 1,
                                 Len(req.body[Min(I)].data) - 2)]

\* the requests sent to the Flask server
FlaskRequests ==
    { Request(1024, Multipart, <<FilePart(<<"a", ".", "t">>, <<"x">>)>>),
      Request(1024, Multipart, <<FieldPart>>),
      Request(MAX_FILE_SIZE + 1, Multipart, AFile) }

InitUpload ==
    /\ variant = "upload"
    /\ now = 0
    /\ ticks = 0
    /\ issued = EmptyMap
    /\ accepted = EmptyMap
    /\ tokensFile = EmptyMap
    /\ uploads = EmptyMap
    /\ resp = NoResponse
    /\ wk = [w \in Workers |-> IdleWorker]
    /\ sessionsFile = EmptyMap
    /\ dirs = NoDirs
    /\ sissued = EmptyMap
    /\ swept = {}
    /\ hs = IdleWorker
    /\ ms = IdleWorker

\* time passes while the threads work: the tokens issued so far expire
FL_tick ==
    /\ issued # EmptyMap
    /\ Advance(TokenTTL + 1)
    /\ UNCHANGED <<variant, issued, accepted, tokensFile, uploads, resp, wk>>
    /\ UNCHANGED shareVars

\* the thread w moves on
Goto(w, state) == wk' = [wk EXCEPT ![w] = state]

\* the threads that are about to draw a token
Creating == {w \in Workers : wk[w].pc \in {"sweep_save", "create_load"}}

\* create_token(): cleanup_expired_tokens() loads the registry
FL_create_begin(w) ==
    /\ wk[w].pc = "idle"
    /\ uuid4 + Cardinality(Creating) <= MaxTokens
    /\ LET dead == {t \in DOMAIN tokensFile : expired(now, tokensFile[t])}
       IN  IF dead # {}
           THEN Goto(w, [pc |-> "sweep_save", tokens |-> remove(tokensFile, dead)])
           ELSE Goto(w, [pc |-> "create_load"])
    /\ UNCHANGED <<variant, now, ticks, issued, accepted, tokensFile, uploads, resp>>
    /\ UNCHANGED shareVars

\* cleanup_expired_tokens(): if expired: save_tokens(tokens)
FL_sweep_save(w) ==
    /\ wk[w].pc = "sweep_save"
    /\ tokensFile' = wk[w].tokens
    /\ Goto(w, [pc |-> "create_load"])
    /\ UNCHANGED <<variant, now, ticks, issued, accepted, uploads, resp>>
    /\ UNCHANGED shareVars

\* create_token(): uuid4, tokens = load_tokens(), tokens[token] = {...}
FL_create_load(w) ==
    /\ wk[w].pc = "create_load"
    /\ LET token == uuid4
       IN  /\ issued' = put(issued, token, now + TokenTTL)
           /\ accepted' = put(accepted, token, <<>>)
           /\ Goto(w, [pc |-> "create_save",
                       tokens |-> put(tokensFile, token, unified_new_token(now))])
    /\ UNCHANGED <<variant, now, ticks, tokensFile, uploads, resp>>
    /\ UNCHANGED shareVars

\* create_token(): save_tokens(tokens)
FL_create_save(w) ==
    /\ wk[w].pc = "create_save"
    /\ tokensFile' = wk[w].tokens
    /\ Goto(w, IdleWorker)
    /\ UNCHANGED <<variant, now, ticks, issued, accepted, uploads, resp>>
    /\ UNCHANGED shareVars

\* the threads that are about to save a file
Saving == {w \in Workers : wk[w].pc = "file_save"}

RECURSIVE Saved(_)
\* the number of files saved so far through the tokens of T
Saved(T) ==
    IF T = {} THEN 0
    ELSE LET t == CHOOSE x \in T : TRUE
         IN  Len(accepted[t]) + Saved(T \ {t})

\* upload(token): use_token loads the registry; the request is answered at
\* once unless a token is to be reaped or a file is to be saved
FL_upload_begin(w, token, method, req) ==
    /\ wk[w].pc = "idle"
    /\ Saved(DOMAIN accepted) + Cardinality(Saving) < MaxUploads
    /\ LET r == use_token(tokensFile, token, now)
           file == request_files(req)
       IN  IF r.save
           THEN Goto(w, [pc |-> "expire_save", tokens |-> r.tokens])
           ELSE IF ~r.valid \/ method = "GET" \/ too_large(req.cl)
                   \/ ~file.found \/ file.filename = <<>>
           THEN Goto(w, IdleWorker)
           ELSE Goto(w, [pc |-> "file_save", token |-> token, file |-> file])
    /\ UNCHANGED <<variant, now, ticks, issued, accepted, tokensFile, uploads, resp>>
    /\ UNCHANGED shareVars

\* use_token(): del tokens[token] ; save_tokens(tokens)
FL_expire_save(w) ==
    /\ wk[w].pc = "expire_save"
    /\ tokensFile' = wk[w].tokens
    /\ Goto(w, IdleWorker)
    /\ UNCHANGED <<variant, now, ticks, issued, accepted, uploads, resp>>
    /\ UNCHANGED shareVars

\* upload(token): file.save(filepath)
FL_file_save(w) ==
    /\ wk[w].pc = "file_save"
    /\ LET token == wk[w].token
           name == unified_safe_name(wk[w].file.filename, now)
       IN  /\ uploads' = writeFile(uploads, name, wk[w].file.content)
           /\ accepted' = put(accepted, token,
                              Append(accepted[token],
                                     [name |-> name,
                                      bytes |-> wk[w].file.content,
                                      ok |-> FALSE]))
           /\ Goto(w, [pc |-> "mark_load", token |-> token, name |-> name,
                       nth |-> Len(accepted[token]) + 1])
    /\ UNCHANGED <<variant, now, ticks, issued, tokensFile, resp>>
    /\ UNCHANGED shareVars

\* upload(token): tokens = load_tokens() ; tokens[token]['used'] = True ...
\* a token that is no longer registered raises KeyError: the answer is 500
FL_mark_load(w) ==
    /\ wk[w].pc = "mark_load"
    /\ LET token == wk[w].token
       IN  IF token \notin DOMAIN tokensFile
           THEN Goto(w, IdleWorker)
           ELSE Goto(w, [pc |-> "mark_save", token |-> token, nth |-> wk[w].nth,
                         tokens |-> put(tokensFile, token,
                                        markUsed(tokensFile[token], wk[w].name, now,
                                                 getsize(uploads, wk[w].name)))])
    /\ UNCHANGED <<variant, now, ticks, issued, accepted, tokensFile, uploads, resp>>
    /\ UNCHANGED shareVars

\* upload(token): save_tokens(tokens) ; return jsonify({'success': True, ...})
FL_mark_save(w) ==
    /\ wk[w].pc = "mark_save"
    /\ tokensFile' = wk[w].tokens
    /\ accepted' = [accepted EXCEPT ![wk[w].token][wk[w].nth].ok = TRUE]
    /\ Goto(w, IdleWorker)
    /\ UNCHANGED <<variant, now, ticks, issued, uploads, resp>>
    /\ UNCHANGED shareVars

NextUpload ==
    \/ FL_tick
    \/ \E w \in Workers : FL_create_begin(w)
    \/ \E w \in Workers : FL_sweep_save(w)
    \/ \E w \in Workers : FL_create_load(w)
    \/ \E w \in Workers : FL_create_save(w)
    \/ \E w \in Workers, token \in TokenIds, method \in {"GET", "POST"},
          req \in FlaskRequests : FL_upload_begin(w, token, method, req)
    \/ \E w \in Workers : FL_expire_save(w)
    \/ \E w \in Workers : FL_file_save(w)
    \/ \E w \in Workers : FL_mark_load(w)
    \/ \E w \in Workers : FL_mark_save(w)

SpecUpload == InitUpload /\ [][NextUpload]_vars

-----------------------------------------------------------------------------
(* The HTTP server and the MCP share server at work on the sessions *)

InitShare ==
    /\ variant \in Variants
    /\ now = 0
    /\ ticks = 0
    /\ issued = EmptyMap
    /\ accepted = EmptyMap
    /\ tokensFile = EmptyMap
    /\ uploads = EmptyMap
    /\ resp = NoResponse
    /\ wk = [w \in Workers |-> IdleWorker]
    /\ sessionsFile = EmptyMap
    /\ dirs = NoDirs
    /\ sissued = EmptyMap
    /\ swept = {}
    /\ hs = IdleWorker
    /\ ms = IdleWorker

\* the HTTP server waits in accept()
ServerIdle == Idle /\ hs.pc = "idle"

\* the operations in progress that have yet to draw a session id
Drawing ==
    (IF "draws" \in DOMAIN hs /\ hs.draws THEN 1 ELSE 0)
    + (IF "draws" \in DOMAIN ms /\ ms.draws THEN 1 ELSE 0)

\* str(uuid.uuid4()) for a session
session_uuid4 == Cardinality(DOMAIN sissued) + 1

CanDraw == session_uuid4 + Drawing <= MaxSessions

\* a day passes
SH_tick ==
    /\ Idle
    /\ \E d \in {SessionTTL, SessionTTL + 1} : Advance(d)
    /\ UNCHANGED <<variant, resp>>
    /\ UNCHANGED uploadVars
    /\ UNCHANGED shareVars

\* __main__ of the HTTP server: cleanup of the sessions begins
H_startup ==
    /\ ServerIdle
    /\ LET c == server_cleanup(sessionsFile, dirs, now)
       IN  /\ dirs' = c.dirs
           /\ hs' = [pc |-> "sweep_save", next |-> "startup",
                     sessions |-> c.sessions, dead |-> c.dead, save |-> c.save]
    /\ UNCHANGED <<variant, now, ticks, resp, sessionsFile, sissued, swept, ms>>
    /\ UNCHANGED uploadVars

\* unified_server.py GET /: list_sessions begins with the cleanup
H_list ==
    /\ ServerIdle
    /\ variant = "unified"
    /\ LET c == cleanup_expired_sessions(sessionsFile, dirs, now)
       IN  /\ dirs' = c.dirs
           /\ hs' = [pc |-> "sweep_save", next |-> "list",
                     sessions |-> c.sessions, dead |-> c.dead, save |-> c.save]
    /\ UNCHANGED <<variant, now, ticks, resp, sessionsFile, sissued, swept, ms>>
    /\ UNCHANGED uploadVars

\* files_server.py POST /api/share: the name is the basename of the filename
\* of the request; the source is looked for in the uploads and in the session
\* directories, then the cleanup begins
H_share(name) ==
    /\ ServerIdle
    /\ variant = "files"
    /\ LET holders == {s \in DOMAIN dirs[SESSIONS_DIR] : isfile(dirs, s, name)}
           c == cleanup_sessions(sessionsFile, dirs, now)
       IN  IF name = <<>>
           THEN /\ Respond("share", 0, 400, "filename required", NoData)
                /\ UNCHANGED <<dirs, hs>>
           ELSE IF name \notin DOMAIN uploads /\ holders = {}
           THEN /\ Respond("share", 0, 404, "source file not found", NoData)
                /\ UNCHANGED <<dirs, hs>>
           ELSE /\ CanDraw
                /\ \E src \in holders :
                      hs' = [pc |-> "sweep_save", next |-> "share", draws |-> TRUE,
                             name |-> name, src |-> src,
                             sessions |-> c.sessions, dead |-> c.dead, save |-> c.save]
                /\ dirs' = c.dirs
                /\ UNCHANGED resp
    /\ UNCHANGED <<variant, now, ticks, sessionsFile, sissued, swept, ms>>
    /\ UNCHANGED uploadVars

\* the cleanup of the HTTP server saves sessions.json and the handler goes on
H_sweep_save ==
    /\ hs.pc = "sweep_save"
    /\ sessionsFile' = IF hs.save THEN hs.sessions ELSE sessionsFile
    /\ swept' = swept \cup hs.dead
    /\ CASE hs.next = "startup" ->
              /\ hs' = IdleWorker
              /\ tokensFile' = IF variant = "files"
                               THEN cleanup_tokens(tokensFile, now)
                               ELSE cleanup_expired_tokens(tokensFile, now)
              /\ UNCHANGED resp
         [] hs.next = "list" ->
              /\ hs' = [pc |-> "list_load"]
              /\ UNCHANGED <<tokensFile, resp>>
         [] hs.next = "share" ->
              /\ hs' = [pc |-> "share_load", draws |-> TRUE,
                        name |-> hs.name, src |-> hs.src]
              /\ UNCHANGED <<tokensFile, resp>>
    /\ UNCHANGED <<variant, now, ticks, issued, accepted, uploads, wk, dirs, sissued, ms>>

\* list_sessions: sessions = load_sessions() and the page
H_list_load ==
    /\ hs.pc = "list_load"
    /\ Respond("list", 0, 200, "", [sessions |-> DOMAIN sessionsFile])
    /\ hs' = IdleWorker
    /\ UNCHANGED <<variant, now, ticks, sessionsFile, dirs, sissued, swept, ms>>
    /\ UNCHANGED uploadVars

\* create_share_link: uuid4, sessions = load_json(...), sessions[sid] = {...}
H_share_load ==
    /\ hs.pc = "share_load"
    /\ LET sid == session_uuid4
       IN  /\ sissued' = put(sissued, sid, now + SessionTTL)
           /\ hs' = [pc |-> "share_save", sid |-> sid, name |-> hs.name, src |-> hs.src,
                     sessions |-> put(sessionsFile, sid, new_session(now, <<hs.name>>))]
    /\ UNCHANGED <<variant, now, ticks, resp, sessionsFile, dirs, swept, ms>>
    /\ UNCHANGED uploadVars

\* create_share_link: save_json(SESSIONS_FILE, sessions)
H_share_save ==
    /\ hs.pc = "share_save"
    /\ sessionsFile' = hs.sessions
    /\ hs' = [pc |-> "share_copy", sid |-> hs.sid, name |-> hs.name, src |-> hs.src]
    /\ UNCHANGED <<variant, now, ticks, resp, dirs, sissued, swept, ms>>
    /\ UNCHANGED uploadVars

\* create_share_link: makedirs, shutil.copy2 and the answer; a source that
\* has vanished raises, and do_POST answers 500
H_share_copy ==
    /\ hs.pc = "share_copy"
    /\ IF isfile(dirs, hs.src, hs.name)
       THEN /\ dirs' = writeInto(makedirs(dirs, hs.sid), hs.sid, hs.name,
                                 dirs[SESSIONS_DIR][hs.src][hs.name])
            /\ Respond("share", hs.sid, 200, "",
                       [session_id |-> hs.sid, filename |-> hs.name,
                        short_url |-> encode_download_key(sidStr(hs.sid),
                                                          hs.name)])
       ELSE /\ dirs' = makedirs(dirs, hs.sid)
            /\ Respond("share", hs.sid, 500, "exception", NoData)
    /\ hs' = IdleWorker
    /\ UNCHANGED <<variant, now, ticks, sessionsFile, sissued, swept, ms>>
    /\ UNCHANGED uploadVars

\* GET /<sid>
H_get_session(sid) ==
    /\ ServerIdle
    /\ LET r == IF variant = "files"
                THEN show_session(sessionsFile, dirs, sid)
                ELSE list_session_files(sessionsFile, dirs, sid)
       IN  Respond("get_session", sid, r.code, r.err, r.data)
    /\ UNCHANGED <<variant, now, ticks>>
    /\ UNCHANGED uploadVars
    /\ UNCHANGED shareVars

\* GET /<sid>/<filename>
H_get_file(sid, name) ==
    /\ ServerIdle
    /\ LET r == IF variant = "files"
                THEN download_file(dirs, sid, name)
                ELSE serve_file(dirs, sid, name)
       IN  Respond("get_file", sid, r.code, r.err, r.data)
    /\ UNCHANGED <<variant, now, ticks>>
    /\ UNCHANGED uploadVars
    /\ UNCHANGED shareVars

\* file_share_server.py call_tool: cleanup_expired_sessions() comes first.
\* sid is the session_id argument of create_and_share, if there is one
M_call(tool, sid) ==
    /\ ms.pc = "idle"
    /\ (tool = "create_session") => sid = NoSession
    /\ (sid = NoSession) => CanDraw
    /\ LET c == share_cleanup_expired_sessions(sessionsFile, dirs, now)
           todo == IF sid = NoSession
                   THEN [pc |-> "create_load", tool |-> tool, draws |-> TRUE]
                   ELSE [pc |-> "write", tool |-> tool, sid |-> sid]
       IN  /\ dirs' = c.dirs
           /\ ms' = IF c.save
                    THEN [pc |-> "sweep_save", sessions |-> c.sessions,
                          dead |-> c.dead, todo |-> todo,
                          draws |-> (sid = NoSession)]
                    ELSE todo
    /\ UNCHANGED <<variant, now, ticks, resp, sessionsFile, sissued, swept, hs>>
    /\ UNCHANGED uploadVars

\* cleanup_expired_sessions: save_sessions(sessions)
M_sweep_save ==
    /\ ms.pc = "sweep_save"
    /\ sessionsFile' = ms.sessions
    /\ swept' = swept \cup ms.dead
    /\ ms' = ms.todo
    /\ UNCHANGED <<variant, now, ticks, resp, dirs, sissued, hs>>
    /\ UNCHANGED uploadVars

\* uuid4, os.makedirs(session_path), sessions = load_sessions(), sessions[sid] = {...}
M_create_load ==
    /\ ms.pc = "create_load"
    /\ LET sid == session_uuid4
       IN  /\ sissued' = put(sissued, sid, now + SessionTTL)
           /\ dirs' = makedirs(dirs, sid)
           /\ ms' = [pc |-> "create_save", tool |-> ms.tool, sid |-> sid,
                     sessions |-> put(sessionsFile, sid, new_session(now, <<>>))]
    /\ UNCHANGED <<variant, now, ticks, resp, sessionsFile, swept, hs>>
    /\ UNCHANGED uploadVars

\* save_sessions(sessions); create_session returns, create_and_share goes on
M_create_save ==
    /\ ms.pc = "create_save"
    /\ sessionsFile' = ms.sessions
    /\ ms' = IF ms.tool = "create_session" THEN IdleWorker
             ELSE [pc |-> "write", tool |-> ms.tool, sid |-> ms.sid]
    /\ UNCHANGED <<variant, now, ticks, resp, dirs, sissued, swept, hs>>
    /\ UNCHANGED uploadVars

\* create_and_share: the file is written, sessions = load_sessions(), and the
\* name is appended if the session lists it not; without the directory
\* open() raises and the tool answers with the error
M_write ==
    /\ ms.pc = "write"
    /\ IF ms.sid \notin DOMAIN dirs[SESSIONS_DIR]
       THEN /\ ms' = IdleWorker
            /\ UNCHANGED dirs
       ELSE /\ dirs' = writeInto(dirs, ms.sid, AName, AContent)
            /\ ms' = IF ms.sid \in DOMAIN sessionsFile
                        /\ \A i \in 1..Len(sessionsFile[ms.sid].files) :
                              sessionsFile[ms.sid].files[i] # AName
                     THEN [pc |-> "list_save",
                           sessions |-> [sessionsFile EXCEPT ![ms.sid].files =
                                             Append(@, AName)]]
                     ELSE IdleWorker
    /\ UNCHANGED <<variant, now, ticks, resp, sessionsFile, sissued, swept, hs>>
    /\ UNCHANGED uploadVars

\* create_and_share: save_sessions(sessions)
M_list_save ==
    /\ ms.pc = "list_save"
    /\ sessionsFile' = ms.sessions
    /\ ms' = IdleWorker
    /\ UNCHANGED <<variant, now, ticks, resp, dirs, sissued, swept, hs>>
    /\ UNCHANGED uploadVars

NextShare ==
    \/ SH_tick
    \/ H_startup
    \/ H_list
    \/ \E name \in {AName, <<>>} : H_share(name)
    \/ H_sweep_save
    \/ H_list_load
    \/ H_share_load
    \/ H_share_save
    \/ H_share_copy
    \/ \E sid \in SessionIds : H_get_session(sid)
    \/ \E sid \in SessionIds : H_get_file(sid, AName)
    \/ \E tool \in {"create_session", "create_and_share"},
          sid \in SessionIds \cup {NoSession} : M_call(tool, sid)
    \/ M_sweep_save
    \/ M_create_load
    \/ M_create_save
    \/ M_write
    \/ M_list_save
    \/ Done

SpecShare == InitShare /\ [][NextShare]_vars

-----------------------------------------------------------------------------
(* file_server.py: the session functions create_session and               *)
(* add_file_to_session and the GET handler of SessionHandler. The process  *)
(* is single-threaded, so each call and each request is one step. The MCP  *)
(* share server works on the same /files tree; its tool calls are taken    *)
(* as one step each here (their interleavings are those of SpecShare).     *)

\* the names and the bytes of the files that are added to sessions
FileNames == { <<"f">>, <<"%", "2", "0">> }
Contents == { <<"x">>, <<"y">> }

\* urllib.parse.quote(s): a character outside the safe set becomes %XX
\* ('%{:02X}'.format(byte)), written out for the characters of the model
RECURSIVE quote(_)
quote(s) ==
    LET safe == {"f", "g", "s", "d", "e", "x", ".", "_", "-", "/",
                 "0", "1", "2", "3", "4", "5"}
        hex(c) == CASE c = "%" -> <<"%", "2", "5">>
                    [] c = " " -> <<"%", "2", "0">>
                    [] OTHER -> <<"%", "3", "F">>
    IN  IF s = <<>> THEN <<>>
        ELSE (IF s[1] \in safe THEN <<s[1]>> ELSE hex(s[1])) \o quote(Tail(s))

\* urllib.parse.unquote(s): every %XX becomes its character, left to right;
\* a % that is not followed by two hex digits stays
RECURSIVE unquote(_)
unquote(s) ==
    LET unhex(h) == CASE h = <<"2", "5">> -> <<"%">>
                      [] h = <<"2", "0">> -> <<" ">>
                      [] h = <<"3", "F">> -> <<"?">>
                      [] h = <<"2", "F">> -> <<"/">>
                      [] OTHER -> <<"%">> \o h
    IN  IF s = <<>> THEN <<>>
        ELSE IF s[1] = "%" /\ Len(s) >= 3
        THEN unhex(SubSeq(s, 2, 3)) \o unquote(SubSeq(s, 4, Len(s)))
        ELSE <<s[1]>> \o unquote(Tail(s))

\* the session a path segment names (NoSession if none)
sidOf(seg) ==
    IF \E s \in SessionIds : sidStr(s) = seg
    THEN CHOOSE s \in SessionIds : sidStr(s) = seg
    ELSE NoSession

\* file_server.py cleanup_expired_sessions(): the same code again
fs_cleanup_expired_sessions(sess, d, clock) ==
    LET dead == overdue(sess, clock)
    IN  [sessions |-> remove(sess, dead), dirs |-> rmtree(d, SESSIONS_DIR, dead),
         dead |-> dead, save |-> dead # {}]

\* create_session(): sweep, new directory, new record, save
create_session(sess, d, sid, clock) ==
    LET c == fs_cleanup_expired_sessions(sess, d, clock)
    IN  [sessions |-> put(c.sessions, sid, new_session(clock, <<>>)),
         dirs |-> makedirs(c.dirs, sid),
         dead |-> c.dead]

\* a URL built from the filename as it is
session_url_unquoted(sid, filename) == <<"/">> \o sidStr(sid) \o <<"/">> \o filename

\* f"{DOMAIN}/{sid}/{quote(filename)}", without the domain
session_url(sid, filename) == <<"/">> \o sidStr(sid) \o <<"/">> \o quote(filename)

\* add_file_to_session(sid, filename, content): None if the directory is
\* missing; else the file is written, the name is appended to the files of
\* the session if the session is registered, and the URL is returned
add_file_to_session(sess, d, sid, filename, content) ==
    IF sid \notin DOMAIN d[SESSIONS_DIR]
    THEN [url |-> None, sessions |-> sess, dirs |-> d]
    ELSE [url |-> session_url(sid, filename),
          sessions |-> IF sid \in DOMAIN sess
                       THEN put(sess, sid,
                                [sess[sid] EXCEPT
                                    !.files = Append(@, filename)])
                       ELSE sess,
          dirs |-> writeInto(d, sid, filename, content)]
\* list_sessions(): sweep, then the page of the registered sessions
list_sessions(sess, d, clock) ==
    LET c == fs_cleanup_expired_sessions(sess, d, clock)
    IN  [code |-> 200, err |-> "",
         data |-> [sessions |-> DOMAIN c.sessions],
         sessions |-> c.sessions, dirs |-> c.dirs, dead |-> c.dead]

\* a response of do_GET that changes nothing on disk
Page(code, err, data, sess, d) ==
    [code |-> code, err |-> err, data |-> data,
     sessions |-> sess, dirs |-> d, dead |-> {}]

\* list_session_files_page(sid): 404 unless the session is registered
list_session_files_page(sess, d, sid) ==
    IF sid \notin DOMAIN sess
    THEN Page(404, "Session not found", NoData, sess, d)
    ELSE Page(200, "", [files |-> sess[sid].files], sess, d)

\* SessionHandler.do_GET on the request path as the client sent it
fs_do_GET(sess, d, rawpath, clock) ==
    LET path == unquote(rawpath)
        parts == split1(strip(path, {"/"}))
        sid == sidOf(parts[1])
    IN  IF path = <<"/">> \/ path = <<>>
        THEN list_sessions(sess, d, clock)
        ELSE IF path = <<"/", "h", "e", "a", "l", "t", "h">>
        THEN Page(200, "", [text |-> "OK"], sess, d)
        ELSE IF parts[1] = <<>>
        THEN Page(404, "Not found", NoData, sess, d)
        ELSE IF sid \notin DOMAIN d[SESSIONS_DIR]
        THEN Page(404, "Session not found", NoData, sess, d)
        ELSE IF Len(parts) = 1
        THEN list_session_files_page(sess, d, sid)
        ELSE IF isfile(d, sid, parts[2])
        THEN Page(200, "", [bytes |-> d[SESSIONS_DIR][sid][parts[2]]], sess, d)
        ELSE Page(404, "File not found", NoData, sess, d)

\* the tree outside /files that the tools are pointed at: the directory /d
\* holds the file f and the subdirectory s, /d/s holds the subdirectory e
\* only, and /d/s/e is empty
SourceTree ==
    LET FileEntry(n, c) == [name |-> n, kind |-> "file", bytes |-> c]
        DirEntry(n) == [name |-> n, kind |-> "dir", bytes |-> <<>>]
    IN  (<<"/", "d">> :> {FileEntry(<<"f">>, <<"x">>), DirEntry(<<"s">>)})
        @@ (<<"/", "d", "/", "s">> :> {DirEntry(<<"e">>)})
        @@ (<<"/", "d", "/", "s", "/", "e">> :> {})

\* os.path.join(dir_path, name)
join(dir, n) == dir \o <<"/">> \o n

\* os.path.isdir(path), os.path.isfile(path)
source_isdir(path) == path \in DOMAIN SourceTree
source_isfile(path) ==
    \E dir \in DOMAIN SourceTree :
        \E e \in SourceTree[dir] : e.kind = "file" /\ join(dir, e.name) = path

\* the bytes of the file at path
source_read(path) ==
    LET dir == CHOOSE dd \in DOMAIN SourceTree :
                   \E e \in SourceTree[dd] : e.kind = "file" /\ join(dd, e.name) = path
    IN  (CHOOSE e \in SourceTree[dir] : join(dir, e.name) = path).bytes

\* fnmatch.fnmatchcase(name, pat) for patterns of characters and '*'
RECURSIVE fnmatch(_, _)
fnmatch(n, pat) ==
    IF pat = <<>> THEN n = <<>>
    ELSE IF pat[1] = "*"
    THEN fnmatch(n, Tail(pat)) \/ (n # <<>> /\ fnmatch(Tail(n), pat))
    ELSE n # <<>> /\ n[1] = pat[1] /\ fnmatch(Tail(n), Tail(pat))

\* glob.glob(os.path.join(dir_path, pattern)): the entries of the directory,
\* files and subdirectories alike, whose name matches; hidden names only
\* match a pattern that starts with a dot
glob(dir, pat) ==
    { e \in SourceTree[dir] :
        /\ fnmatch(e.name, pat)
        /\ (e.name # <<>> /\ e.name[1] = ".") => (pat # <<>> /\ pat[1] = ".") }

\* the names of a set of entries in the order glob returned them
RECURSIVE in_order(_)
in_order(E) ==
    IF E = {} THEN <<>>
    ELSE LET e == CHOOSE x \in E : TRUE
         IN  <<e>> \o in_order(E \ {e})

\* the answer of a tool and what it leaves on disk
ToolResult(text, sid, sess, d, dead) ==
    [text |-> text, sid |-> sid, sessions |-> sess, dirs |-> d, dead |-> dead]

\* if not sid: a new session with its directory, saved at once
ensure_session(sess, d, sid, newsid, clock) ==
    IF sid = NoSession
    THEN [sid |-> newsid,
          sessions |-> put(sess, newsid, new_session(clock, <<>>)),
          dirs |-> makedirs(d, newsid)]
    ELSE [sid |-> sid, sessions |-> sess, dirs |-> d]

\* if sid in sessions and filename not in sessions[sid]['files']: append
share_append(sess, sid, filename) ==
    IF sid \in DOMAIN sess
       /\ ~\E i \in 1..Len(sess[sid].files) : sess[sid].files[i] = filename
    THEN put(sess, sid, [sess[sid] EXCEPT !.files = Append(@, filename)])
    ELSE sess

\* call_tool, share_file: after the sweep of call_tool
share_file(sess, d, file_path, sid, newsid, clock) ==
    LET c == share_cleanup_expired_sessions(sess, d, clock)
        s == ensure_session(c.sessions, c.dirs, sid, newsid, clock)
        filename == basename(file_path)
    IN  IF ~(source_isdir(file_path) \/ source_isfile(file_path))
        THEN ToolResult("File not found", NoSession, c.sessions, c.dirs, c.dead)
        ELSE IF s.sid \notin DOMAIN s.dirs[SESSIONS_DIR]
        THEN ToolResult("Session not found", NoSession, s.sessions, s.dirs, c.dead)
        ELSE IF ~source_isfile(file_path)
        THEN ToolResult("Error", NoSession, s.sessions, s.dirs, c.dead)
        ELSE ToolResult("Shared", s.sid,
                        share_append(s.sessions, s.sid, filename),
                        writeInto(s.dirs, s.sid, filename, source_read(file_path)),
                        c.dead)

\* call_tool, create_and_share: open() raises if the directory is missing
create_and_share(sess, d, filename, content, sid, newsid, clock) ==
    LET c == share_cleanup_expired_sessions(sess, d, clock)
        s == ensure_session(c.sessions, c.dirs, sid, newsid, clock)
    IN  IF s.sid \notin DOMAIN s.dirs[SESSIONS_DIR]
        THEN ToolResult("Error", NoSession, s.sessions, s.dirs, c.dead)
        ELSE ToolResult("Shared", s.sid,
                        share_append(s.sessions, s.sid, filename),
                        writeInto(s.dirs, s.sid, filename, content),
                        c.dead)

\* call_tool, create_binary_and_share: the file is written in the format
\* asked for (a type the tool does not know writes nothing) and the link is
\* returned; sessions.json is not loaded again
create_binary_and_share(sess, d, filename, file_type, content, sid, newsid, clock) ==
    LET c == share_cleanup_expired_sessions(sess, d, clock)
        s == ensure_session(c.sessions, c.dirs, sid, newsid, clock)
    IN  IF file_type # "txt"
        THEN ToolResult("Shared", s.sid, s.sessions, s.dirs, c.dead)
        ELSE IF s.sid \notin DOMAIN s.dirs[SESSIONS_DIR]
        THEN ToolResult("Error", NoSession, s.sessions, s.dirs, c.dead)
        ELSE ToolResult("Shared", s.sid, s.sessions,
                        writeInto(s.dirs, s.sid, filename, content), c.dead)

\* for f in files: if os.path.isfile(f): copy2, files.append(basename(f))
RECURSIVE copy_files(_, _, _, _)
copy_files(entries, dir, sid, acc) ==
    IF entries = <<>> THEN acc
    ELSE LET e == entries[1]
             filename == basename(join(dir, e.name))
         IN  copy_files(Tail(entries), dir, sid,
                 IF e.kind = "file"
                 THEN [files |-> Append(acc.files, filename),
                       dirs |-> writeInto(acc.dirs, sid, filename, e.bytes)]
                 ELSE acc)

\* call_tool, share_directory
share_directory(sess, d, dir_path, pattern, newsid, clock) ==
    LET c == share_cleanup_expired_sessions(sess, d, clock)
    IN  IF ~source_isdir(dir_path)
        THEN ToolResult("Directory not found", NoSession, c.sessions, c.dirs, c.dead)
        ELSE IF glob(dir_path, pattern) = {}
        THEN ToolResult("No files matching pattern", NoSession,
                        c.sessions, c.dirs, c.dead)
        ELSE LET copied == copy_files(in_order(glob(dir_path, pattern)),
                                      dir_path, newsid,
                                      [files |-> <<>>,
                                       dirs |-> makedirs(c.dirs, newsid)])
             IN  ToolResult("Shared", newsid,
                            put(c.sessions, newsid,
                                new_session(clock, copied.files)),
                            copied.dirs, c.dead)

\* the arguments of the calls and the paths of the requests
FsPaths ==
    {<<"/">>}
    \cup {<<"/">> \o sidStr(s) : s \in SessionIds}
    \cup {session_url(s, n) : s \in SessionIds, n \in FileNames}
SourcePaths == DOMAIN SourceTree \cup {<<"/", "d", "/", "f">>, <<"/", "g">>}
Patterns == {<<"*">>, <<"g", "*">>}

InitFS ==
    /\ variant = "file_server"
    /\ now = 0
    /\ ticks = 0
    /\ issued = EmptyMap
    /\ accepted = EmptyMap
    /\ tokensFile = EmptyMap
    /\ uploads = EmptyMap
    /\ resp = NoResponse
    /\ wk = [w \in Workers |-> IdleWorker]
    /\ sessionsFile = EmptyMap
    /\ dirs = NoDirs
    /\ sissued = EmptyMap
    /\ swept = {}
    /\ hs = IdleWorker
    /\ ms = IdleWorker

\* the answer to the latest call or request
Answer(op, arg, code, err, data) ==
    resp' = [op |-> op, arg |-> arg, code |-> code, err |-> err, data |-> data]

\* what a call leaves in sessions.json and under SESSIONS_DIR
Leaves(r) ==
    /\ sessionsFile' = r.sessions
    /\ dirs' = r.dirs
    /\ swept' = swept \cup r.dead
    /\ sissued' = LET new == DOMAIN r.sessions \ DOMAIN sissued
                   IN  IF new = {} THEN sissued
                       ELSE LET s == CHOOSE x \in new : TRUE
                            IN  put(sissued, s, r.sessions[s].expires)

\* the number of names in the files lists of the sessions of S
RECURSIVE Listed(_)
Listed(S) ==
    IF S = {} THEN 0
    ELSE LET s == CHOOSE x \in S : TRUE
         IN  Len(sessionsFile[s].files) + Listed(S \ {s})

\* the files lists have room for one more name
HasRoom == Listed(DOMAIN sessionsFile) < MaxFiles

\* a day passes: a session of that age is at its expiry, not past it
FS_tick ==
    /\ sissued # EmptyMap
    /\ Advance(SessionTTL)
    /\ UNCHANGED <<variant, resp>>
    /\ UNCHANGED uploadVars
    /\ UNCHANGED shareVars

FS_create_session ==
    /\ session_uuid4 <= MaxSessions
    /\ LET sid == session_uuid4
           r == create_session(sessionsFile, dirs, sid, now)
       IN  /\ Leaves(r)
           /\ Answer("create_session", sid, 200, "", [sid |-> sid])
    /\ UNCHANGED <<variant, now, ticks, hs, ms>>
    /\ UNCHANGED uploadVars

FS_add_file(sid, filename, content) ==
    /\ HasRoom
    /\ LET r == add_file_to_session(sessionsFile, dirs, sid, filename, content)
       IN  /\ Leaves([sessions |-> r.sessions, dirs |-> r.dirs, dead |-> {}])
           /\ Answer("add_file", sid, IF r.url = None THEN 404 ELSE 200, "",
                     [url |-> r.url, filename |-> filename, bytes |-> content])
    /\ UNCHANGED <<variant, now, ticks, hs, ms>>
    /\ UNCHANGED uploadVars

FS_GET(path) ==
    /\ LET r == fs_do_GET(sessionsFile, dirs, path, now)
       IN  /\ Leaves(r)
           /\ Answer("GET", sidOf(split1(strip(unquote(path), {"/"}))[1]),
                     r.code, r.err, [path |-> path, page |-> r.data])
    /\ UNCHANGED <<variant, now, ticks, hs, ms>>
    /\ UNCHANGED uploadVars

T_share_file(file_path, sid) ==
    /\ sid = NoSession => session_uuid4 <= MaxSessions
    /\ HasRoom
    /\ LET r == share_file(sessionsFile, dirs, file_path, sid, session_uuid4, now)
       IN  /\ Leaves(r)
           /\ Answer("share_file", sid, 0, r.text,
                     [sid |-> r.sid, filename |-> basename(file_path)])
    /\ UNCHANGED <<variant, now, ticks, hs, ms>>
    /\ UNCHANGED uploadVars

T_create_and_share(filename, content, sid) ==
    /\ sid = NoSession => session_uuid4 <= MaxSessions
    /\ HasRoom
    /\ LET r == create_and_share(sessionsFile, dirs, filename, content, sid,
                                 session_uuid4, now)
       IN  /\ Leaves(r)
           /\ Answer("create_and_share", sid, 0, r.text,
                     [sid |-> r.sid, filename |-> filename])
    /\ UNCHANGED <<variant, now, ticks, hs, ms>>
    /\ UNCHANGED uploadVars

T_create_binary_and_share(filename, file_type, content, sid) ==
    /\ sid = NoSession => session_uuid4 <= MaxSessions
    /\ LET r == create_binary_and_share(sessionsFile, dirs, filename, file_type,
                                        content, sid, session_uuid4, now)
       IN  /\ Leaves(r)
           /\ Answer("create_binary_and_share", sid, 0, r.text,
                     [sid |-> r.sid, filename |-> filename])
    /\ UNCHANGED <<variant, now, ticks, hs, ms>>
    /\ UNCHANGED uploadVars

T_share_directory(dir_path, pattern) ==
    /\ session_uuid4 <= MaxSessions
    /\ LET r == share_directory(sessionsFile, dirs, dir_path, pattern,
                                session_uuid4, now)
       IN  /\ Leaves(r)
           /\ Answer("share_directory", NoSession, 0, r.text,
                     [sid |-> r.sid, dir |-> dir_path, pattern |-> pattern])
    /\ UNCHANGED <<variant, now, ticks, hs, ms>>
    /\ UNCHANGED uploadVars

NextFS ==
    \/ FS_tick
    \/ FS_create_session
    \/ \E sid \in SessionIds, n \in FileNames, c \in Contents :
          FS_add_file(sid, n, c)
    \/ \E path \in FsPaths : FS_GET(path)

SpecFS == InitFS /\ [][NextFS]_vars

\* file_share_server.py alone: the tool calls of the MCP share server
NextTools ==
    \/ FS_tick
    \/ \E p \in SourcePaths, sid \in SessionIds \cup {NoSession} :
          T_share_file(p, sid)
    \/ \E n \in FileNames, c \in Contents, sid \in SessionIds \cup {NoSession} :
          T_create_and_share(n, c, sid)
    \/ \E n \in FileNames, ft \in {"txt", "zip"}, c \in Contents,
          sid \in SessionIds \cup {NoSession} :
          T_create_binary_and_share(n, ft, c, sid)
    \/ \E p \in SourcePaths, pat \in Patterns : T_share_directory(p, pat)

SpecTools == InitFS /\ [][NextTools]_vars

-----------------------------------------------------------------------------
(* files_server.py: the download keys at work. GET /d/<key> is answered    *)
(* by the single-threaded server; the keys are those of the texts of       *)
(* bounded length and their damaged variants.                              *)

\* the texts of at most n characters
Texts(chars, n) == UNION {[1..m -> chars] : m \in 0..n}

\* session ids and filenames given to the codec
CodecStrings == Texts({"f", "/", "U+233"}, MaxKey - 2)

\* the keys requested: the key of every text, as it is, padded, preceded by
\* a junk character, followed by a non-ASCII character, cut short by one
\* character, and with its first symbol replaced by the symbol 63
Keys ==
    LET key(t) == rstrip(urlsafe_b64encode(utf8_encode(t)), {PAD})
        K == {key(t) : t \in Texts({"f", "/", "U+233"}, MaxKey)}
    IN  K \cup {k \o <<PAD>> : k \in K}
          \cup {<<JUNK>> \o k : k \in K}
          \cup {k \o <<NONASCII>> : k \in K}
          \cup {SubSeq(k, 1, Len(k) - 1) : k \in K \ {<<>>}}
          \cup {<<63>> \o Tail(k) : k \in K \ {<<>>}}

InitCodec == InitShare /\ variant = "files"

\* encode_download_key and decode_download_key applied to a pair
CD_roundtrip(sid, filename) ==
    /\ ServerIdle
    /\ LET key == encode_download_key(sid, filename)
       IN  Respond("roundtrip", 0, 0, "",
                   [sid |-> sid, filename |-> filename, key |-> key,
                    back |-> decode_download_key(key)])
    /\ UNCHANGED <<variant, now, ticks>>
    /\ UNCHANGED uploadVars
    /\ UNCHANGED shareVars

\* GET /d/<key>
GET_d(key) ==
    /\ ServerIdle
    /\ LET r == IF key = <<>>
                THEN [code |-> 400, err |-> "Invalid download link",
                      data |-> NoData]
                ELSE show_download_bridge(key)
       IN  Respond("d", 0, r.code, r.err, [key |-> key, pair |-> r.data])
    /\ UNCHANGED <<variant, now, ticks>>
    /\ UNCHANGED uploadVars
    /\ UNCHANGED shareVars

NextCodec ==
    \/ \E sid, filename \in CodecStrings : CD_roundtrip(sid, filename)
    \/ \E key \in Keys : GET_d(key)
    \/ Idle /\ T_create_and_share(AName, AContent, NoSession)
    \/ H_share(AName)
    \/ H_sweep_save
    \/ H_share_load
    \/ H_share_save
    \/ H_share_copy
    \/ Done

SpecCodec == InitCodec /\ [][NextCodec]_vars

-----------------------------------------------------------------------------
(* sessions.json on the disk. save_sessions is open(SESSION_FILE, 'w'),     *)
(* which empties the file, then json.dump, which fills it: between the two  *)
(* the file holds no complete document. The MCP share server writes, the    *)
(* HTTP server, another process, answers GET /<sid> in the meantime.        *)

\* the MCP server has opened sessions.json for writing and json.dump has
\* not finished
Dumping == ms.pc \in {"sweep_dump", "create_dump"}

\* sessions.json as a reader finds it: absent until the first open(.., 'w'),
\* not parsable while it is being written
Document ==
    [exists |-> sessionsFile # EmptyMap \/ swept # {} \/ Dumping,
     parsable |-> ~Dumping,
     content |-> sessionsFile]

\* files_server.py load_json(path): any exception gives {}
load_json(doc) ==
    IF doc.exists /\ doc.parsable
    THEN [raised |-> FALSE, value |-> doc.content]
    ELSE [raised |-> FALSE, value |-> EmptyMap]

\* unified_server.py load_sessions(): {} if the file is absent, else
\* json.load(f), which raises on a text that is not a document
load_sessions(doc) ==
    IF ~doc.exists THEN [raised |-> FALSE, value |-> EmptyMap]
    ELSE IF doc.parsable THEN [raised |-> FALSE, value |-> doc.content]
    ELSE [raised |-> TRUE, value |-> EmptyMap]

\* do_GET of the HTTP server, /<sid>, on the document as it is on the disk;
\* an exception leaves do_GET and the connection is closed without a response
get_session(doc, d, sid) ==
    IF variant = "files"
    THEN show_session(load_json(doc).value, d, sid)
    ELSE IF sid \notin DOMAIN d[SESSIONS_DIR]
    THEN list_session_files(EmptyMap, d, sid)
    ELSE IF load_sessions(doc).raised
    THEN [code |-> 0, err |-> "exception", data |-> NoData]
    ELSE list_session_files(load_sessions(doc).value, d, sid)

\* a day and a second pass
D_tick ==
    /\ Idle
    /\ sissued # EmptyMap
    /\ Advance(SessionTTL + 1)
    /\ UNCHANGED <<variant, resp>>
    /\ UNCHANGED uploadVars
    /\ UNCHANGED shareVars

\* GET /<sid>
D_get_session(sid) ==
    /\ LET r == get_session(Document, dirs, sid)
       IN  Respond("get_session", sid, r.code, r.err, r.data)
    /\ UNCHANGED <<variant, now, ticks>>
    /\ UNCHANGED uploadVars
    /\ UNCHANGED shareVars

\* file_share_server.py call_tool, create_session: cleanup_expired_sessions()
\* loads the registry and removes the directories of the expired sessions
D_call ==
    /\ ms.pc = "idle"
    /\ session_uuid4 <= MaxSessions
    /\ LET c == share_cleanup_expired_sessions(sessionsFile, dirs, now)
       IN  /\ dirs' = c.dirs
           /\ ms' = IF c.save
                    THEN [pc |-> "sweep_open", sessions |-> c.sessions,
                          dead |-> c.dead]
                    ELSE [pc |-> "create_load"]
    /\ UNCHANGED <<variant, now, ticks, resp, sessionsFile, sissued, swept, hs>>
    /\ UNCHANGED uploadVars

\* save_sessions: open(SESSION_FILE, 'w')
D_open ==
    /\ ms.pc \in {"sweep_open", "create_open"}
    /\ ms' = [ms EXCEPT !.pc = IF ms.pc = "sweep_open" THEN "sweep_dump"
                                ELSE "create_dump"]
    /\ UNCHANGED <<variant, now, ticks, resp, sessionsFile, dirs, sissued, swept, hs>>
    /\ UNCHANGED uploadVars

\* cleanup_expired_sessions: json.dump(sessions, f) and the file is closed
D_sweep_dump ==
    /\ ms.pc = "sweep_dump"
    /\ sessionsFile' = ms.sessions
    /\ swept' = swept \cup ms.dead
    /\ ms' = [pc |-> "create_load"]
    /\ UNCHANGED <<variant, now, ticks, resp, dirs, sissued, hs>>
    /\ UNCHANGED uploadVars

\* uuid4, os.makedirs(session_path), sessions = load_sessions(), sessions[sid] = {...}
D_create_load ==
    /\ ms.pc = "create_load"
    /\ LET sid == session_uuid4
       IN  /\ sissued' = put(sissued, sid, now + SessionTTL)
           /\ dirs' = makedirs(dirs, sid)
           /\ ms' = [pc |-> "create_open", sid |-> sid,
                     sessions |-> put(sessionsFile, sid, new_session(now, <<>>))]
    /\ UNCHANGED <<variant, now, ticks, resp, sessionsFile, swept, hs>>
    /\ UNCHANGED uploadVars

\* create_session: json.dump(sessions, f) and the file is closed
D_create_dump ==
    /\ ms.pc = "create_dump"
    /\ sessionsFile' = ms.sessions
    /\ ms' = IdleWorker
    /\ UNCHANGED <<variant, now, ticks, resp, dirs, sissued, swept, hs>>
    /\ UNCHANGED uploadVars

NextDocument ==
    \/ D_tick
    \/ \E sid \in SessionIds : D_get_session(sid)
    \/ D_call
    \/ D_open
    \/ D_sweep_dump
    \/ D_create_load
    \/ D_create_dump
    \/ Done

SpecDocument == InitShare /\ [][NextDocument]_vars

-----------------------------------------------------------------------------
(* Issuing: files_server.py issues the upload tokens and file_server.py     *)
(* creates the sessions, each in its own single-threaded process, on the    *)
(* same /files tree.                                                        *)

InitIssue == Init /\ variant = "files"

NextIssue ==
    \/ Tick
    \/ POST_create_token
    \/ GET_upload_link
    \/ FS_tick
    \/ FS_create_session
    \/ Done

SpecIssue == InitIssue /\ [][NextIssue]_vars

-----------------------------------------------------------------------------
(* The multipart parser at work: POST /upload/<token> with bodies of one    *)
(* and two parts of every kind.                                             *)

\* a part that names a file and has no blank line after its headers
NoSepPart ==
    [attr |-> "quoted", sep |-> FALSE, filename |-> <<"c">>, data |-> <<>>]

\* a file part whose filename is empty: filename=""
EmptyNamePart ==
    [attr |-> "quoted", sep |-> TRUE, filename |-> <<>>, data |-> <<"z", CR, LF>>]

\* a file part whose filename is not quoted: filename=a.t
UnquotedPart ==
    [attr |-> "unquoted", sep |-> TRUE, filename |-> <<"d">>, data |-> <<"w", CR, LF>>]

PartKinds ==
    { FilePart(<<"a", ".", "t">>, <<"x">>), FilePart(<<"b">>, <<"y">>), FieldPart,
      NoSepPart, EmptyNamePart, UnquotedPart }

MultipartRequests ==
    { Request(1024, Multipart, <<p>>) : p \in PartKinds }
    \cup { Request(1024, Multipart, <<p, q>>) : p \in PartKinds, q \in PartKinds }

NextParse ==
    \/ POST_create_token
    \/ \E token \in TokenIds, req \in MultipartRequests : POST_upload(token, req)
    \/ Done

SpecParse == Init /\ [][NextParse]_vars

-----------------------------------------------------------------------------
(* The bytes of an upload: POST /upload/<token> with files whose last      *)
(* bytes are the bytes of the line break and of the boundary.              *)

\* the bytes of b'\r\n-'
TailBytes == {CR, LF, "-"}

\* the contents of the client files: a letter followed by up to two of the
\* bytes above, and files made of those bytes only
TailContents ==
    { <<"x">> } \cup { <<"x", a>> : a \in TailBytes }
    \cup { <<"x", a, b>> : a \in TailBytes, b \in TailBytes }
    \cup { <<a>> : a \in TailBytes }

\* the request that uploads a file a.t with the content c
UploadBytes(c) == Request(1024, Multipart, <<FilePart(<<"a", ".", "t">>, c)>>)

NextBytes ==
    \/ POST_create_token
    \/ \E token \in TokenIds, c \in TailContents :
          POST_upload(token, UploadBytes(c))
    \/ Done

SpecBytes == Init /\ [][NextBytes]_vars

-----------------------------------------------------------------------------
(* The names of the uploads: POST /upload/<token> with filenames made of   *)
(* letters, dots and path separators.                                      *)

\* the filenames the clients send: every text of one to three characters
\* over a letter, '.' and '/', and longer paths that climb out of a directory
TraversalNames ==
    (Texts({"a", ".", "/"}, 3) \ {<<>>})
    \cup { <<".", ".", "/", "a">>, <<"a", "/", ".", ".">>, <<"/", ".", ".", "/">>,
           <<".", ".", "/", ".", ".">>, <<".", ".", "/", ".", ".", "/", "a", ".", "t">>,
           <<"/", "a", "/", ".", ".", "/", ".", ".", "/", "a">> }

\* the request that uploads one byte under the filename n
UploadNamed(n) == Request(1024, Multipart, <<FilePart(n, <<"x">>)>>)

NextNames ==
    \/ POST_create_token
    \/ \E token \in TokenIds, n \in TraversalNames : POST_upload(token, UploadNamed(n))
    \/ Done

SpecNames == Init /\ [][NextNames]_vars

-----------------------------------------------------------------------------
(* The sweeps at work on both registries: tokens and sessions of every     *)
(* age, swept by the start of the HTTP server and by the tool calls of the *)
(* MCP share server.                                                       *)

\* call_tool, list_sessions: the sweep of call_tool, then the registry
list_sessions_tool(sess, d, clock) ==
    LET c == share_cleanup_expired_sessions(sess, d, clock)
    IN  ToolResult(IF c.sessions = EmptyMap THEN "No active sessions"
                   ELSE "Active Sessions", NoSession, c.sessions, c.dirs, c.dead)

T_list_sessions ==
    /\ Idle
    /\ LET r == list_sessions_tool(sessionsFile, dirs, now)
       IN  /\ Leaves(r)
           /\ Answer("list_sessions", NoSession, 0, r.text,
                     [sessions |-> DOMAIN r.sessions])
    /\ UNCHANGED <<variant, now, ticks, hs, ms>>
    /\ UNCHANGED uploadVars

\* the clock advances by the life of a token or by the life of a session:
\* an entry of that age is at its expiry, an older one is past it
SW_tick ==
    /\ Idle
    /\ \E d \in {TokenTTL, SessionTTL} : Advance(d)
    /\ UNCHANGED <<variant, issued, accepted, tokensFile, uploads, resp, wk>>
    /\ UNCHANGED shareVars

NextSweep ==
    \/ SW_tick
    \/ POST_create_token
    \/ Idle /\ T_create_and_share(AName, AContent, NoSession)
    \/ T_list_sessions
    \/ Startup
    \/ Done

SpecSweep == Init /\ [][NextSweep]_vars

-----------------------------------------------------------------------------
(* The requests that only read: the HTTP server answers checks, session    *)
(* pages, downloads, download keys and /health on registries and           *)
(* directories that hold sessions, uploads and tokens of every age.        *)

\* GET /health
GET_health ==
    /\ Respond("health", 0, 200, "", [status |-> "ok"])
    /\ UNCHANGED <<variant, now, ticks>>
    /\ UNCHANGED uploadVars
    /\ UNCHANGED shareVars

\* the keys requested: the key of f/f, that key after a junk character, and
\* no key at all
ReadKeys ==
    LET key == encode_download_key(<<"f">>, <<"f">>)
    IN  {key, <<JUNK>> \o key, <<>>}

NextRead ==
    \/ FL_tick
    \/ POST_create_token
    \/ \E token \in TokenIds : POST_upload(token, Request(1024, Multipart, AFile))
    \/ Idle /\ T_create_and_share(AName, AContent, NoSession)
    \/ \E token \in TokenIds, method \in {"GET", "POST"} : API_check(token, method)
    \/ \E sid \in SessionIds : H_get_session(sid)
    \/ \E sid \in SessionIds : H_get_file(sid, AName)
    \/ \E key \in ReadKeys : variant = "files" /\ GET_d(key)
    \/ GET_health
    \/ Done

SpecRead == Init /\ [][NextRead]_vars

-----------------------------------------------------------------------------
(* The life of a token: issue, one upload, checks, the clock and the sweep *)
(* at the start of the server.                                             *)

NextLife ==
    \/ Tick
    \/ POST_create_token
    \/ \E token \in TokenIds : POST_upload(token, Request(1024, Multipart, AFile))
    \/ \E token \in TokenIds, method \in {"GET", "POST"} : API_check(token, method)
    \/ Startup
    \/ Done

SpecLife == Init /\ [][NextLife]_vars

(* The uploads that are refused: POST /upload/<token> with every request   *)
(* of the clients, well-formed or not.                                     *)

NextRefusals ==
    \/ Tick
    \/ POST_create_token
    \/ \E token \in TokenIds, req \in UploadRequests : POST_upload(token, req)
    \/ Done

SpecRefusals == Init /\ [][NextRefusals]_vars

-----------------------------------------------------------------------------
(* The error taxonomy of the specification, read off the responses *)

\* the kinds of failure an error message reports
Kinds(err) ==
    CASE err = "Invalid token" -> {"InvalidToken"}
      [] err = "Token expired or used" -> {"Expired", "AlreadyUsed"}
      [] err \in {"File too large (max 50MB)", "File too large"} -> {"TooLarge"}
      [] err \in {"Expected multipart/form-data", "No multipart form data",
                  "Invalid boundary", "No file in request",
                  "Invalid download link"} -> {"Malformed"}
      [] OTHER -> {}

Rejected(r, kind) == r.code \in 400..499 /\ kind \in Kinds(r.err)

\* token is registered and its time has not run out
Live(token) == token \in DOMAIN tokensFile /\ ~expired(now, tokensFile[token])

\* the uploads through the token that were answered with success
Successes(token) ==
    IF token \in DOMAIN accepted
    THEN {i \in 1..Len(accepted[token]) : accepted[token][i].ok}
    ELSE {}

\* an upload through the token has succeeded
Consumed(token) == Successes(token) # {}

-----------------------------------------------------------------------------
(* Properties *)

\* the token of the upload that the step answers, if the step is an upload
Uploading == IF resp'.op = "upload" THEN {resp'.arg} ELSE {}

\* C1: a token is consumed at most once. Once a POST /upload/T has
\* succeeded, every later POST /upload/T, whatever its body, while T is
\* registered and unexpired, is rejected as AlreadyUsed, accepts nothing and
\* leaves the uploads directory, hence the bytes of the first file, untouched.
C1_ConsumedAtMostOnce ==
    [][\A token \in Uploading, req \in UploadRequests :
          (Consumed(token) /\ Live(token) /\ POST_upload(token, req))
          => /\ Rejected(resp', "AlreadyUsed")
             /\ uploads' = uploads
             /\ accepted' = accepted
             /\ Len(accepted'[token]) = 1]_vars

\* a second POST on a consumed, live token has just been rejected and the
\* first file is in place with its bytes
C1_Witness ==
    /\ resp.op = "upload"
    /\ Rejected(resp, "AlreadyUsed")
    /\ Consumed(resp.arg)
    /\ Live(resp.arg)
    /\ accepted[resp.arg][1].name \in DOMAIN uploads
    /\ uploads[accepted[resp.arg][1].name] = accepted[resp.arg][1].bytes

\* field key of a token record is set: present and not null
IsSet(data, key) ==
    key \in DOMAIN data /\ (key = "filename" => data[key] # None)

\* token was issued and its time has run out, reaped or not
PastExpiry(token) == token \in DOMAIN issued /\ now > issued[token]

\* token is registered, unexpired and unused
Pending(token) == Live(token) /\ ~is_used(tokensFile[token])

\* the step neither stores a file nor touches the token registry
NothingPersisted == uploads' = uploads /\ tokensFile' = tokensFile

C7_CheckStatus ==
    (variant = "files" /\ resp.op = "check_upload")
    => LET token == resp.arg
           st == resp.data
       IN  /\ st.status \in {"NotFound", "Expired", "Pending", "Used"}
           /\ token \notin DOMAIN tokensFile => st.status = "NotFound"
           /\ (token \in DOMAIN tokensFile /\ ~Live(token)) => st.status = "Expired"
           /\ Pending(token) => st.status = "Pending"
           /\ (Live(token) /\ ~Pending(token))
                  => /\ st.status = "Used"
                     /\ st.filename = tokensFile[token].filename
                     /\ st.size = kb(tokensFile[token].size)

\* C9: in every state of the token registry, filename and size of a token
\* are set if and only if the token is used.
C9_FilenameSizeIffUsed ==
    \A token \in DOMAIN tokensFile :
        /\ IsSet(tokensFile[token], "filename") <=> is_used(tokensFile[token])
        /\ IsSet(tokensFile[token], "size") <=> is_used(tokensFile[token])

\* the registry holds a used token with filename and size next to an unused
\* token that has neither
C9_Witness ==
    \E t1, t2 \in DOMAIN tokensFile :
        /\ is_used(tokensFile[t1])
        /\ IsSet(tokensFile[t1], "filename") /\ IsSet(tokensFile[t1], "size")
        /\ ~is_used(tokensFile[t2])
        /\ ~IsSet(tokensFile[t2], "filename") /\ ~IsSet(tokensFile[t2], "size")

\* C10: an upload whose declared Content-Length exceeds MAX_FILE_SIZE is
\* rejected before anything is persisted: no file is written and no token is
\* marked used; on a pending token the rejection is TooLarge.
C10_TooLargeRejected ==
    [][\A token \in Uploading, req \in UploadRequests :
          (req.cl > MAX_FILE_SIZE /\ POST_upload(token, req))
          => /\ resp'.code \in 400..499
             /\ Pending(token) => Rejected(resp', "TooLarge")
             /\ NothingPersisted]_vars

\* an oversized upload on a pending token has just been rejected as TooLarge;
\* the token is still pending and the uploads directory is empty
C10_Witness ==
    /\ resp.op = "upload"
    /\ Rejected(resp, "TooLarge")
    /\ Pending(resp.arg)
    /\ uploads = EmptyMap


\* C2: of the uploads that present one token, at most one is answered with
\* success and at most one file is stored on its behalf.
C2_AtMostOneSuccess ==
    \A t \in DOMAIN accepted :
        /\ Cardinality(Successes(t)) <= 1
        /\ Len(accepted[t]) <= 1

\* C8: once a token is marked used, no step of any operation, interleaved
\* or not, leaves it registered as unused.
C8_UsedNeverReversed ==
    [][\A t \in DOMAIN tokensFile :
          (is_used(tokensFile[t]) /\ t \in DOMAIN tokensFile')
              => is_used(tokensFile'[t])]_vars


\* no request is being handled and no tool call is in progress
Quiescent == Idle /\ hs.pc = "idle" /\ ms.pc = "idle"

\* C3: no update of a registry is lost: once the operations that ran
\* concurrently have finished, sessions.json holds every session that was
\* created and has not expired.
C3_NoLostUpdate ==
    Quiescent
    => \A s \in DOMAIN sissued :
          ~(now > sissued[s]) => s \in DOMAIN sessionsFile

\* C4: a session past its expiry is never served nor listed: GET /<sid> and
\* GET /<sid>/<filename> answer 404 once now > expires, swept or not.
C4_ExpiredNeverServed ==
    /\ (resp.op \in {"get_session", "get_file"}
         /\ resp.arg \in DOMAIN sissued /\ now > sissued[resp.arg])
           => resp.code = 404
    /\ resp.op = "list"
           => \A s \in resp.data.sessions : ~(now > sissued[s])

\* C5: after a sweep that found session S expired, S is not in the registry,
\* its directory does not exist, and GET /<S> and GET /<S>/<filename>
\* answer 404.
C5_SweepRemoves ==
    \A s \in swept :
        /\ s \notin DOMAIN sessionsFile
        /\ s \notin DOMAIN dirs[SESSIONS_DIR]
        /\ (resp.op \in {"get_session", "get_file"} /\ resp.arg = s)
               => resp.code = 404

\* the first precondition of POST /upload/<token> that fails, in the order
\* token exists, unexpired, unused, Content-Length, Content-Type
FirstFailure(token, req) ==
    IF token \notin DOMAIN tokensFile THEN "InvalidToken"
    ELSE IF expired(now, tokensFile[token]) THEN "Expired"
    ELSE IF is_used(tokensFile[token]) THEN "AlreadyUsed"
    ELSE IF req.cl > MAX_FILE_SIZE THEN "TooLarge"
    ELSE IF ~req.ctype.multipart \/ ~req.ctype.boundary THEN "Malformed"
    ELSE "None"

\* C11: the upload handler checks its preconditions in order (token exists,
\* unexpired and unused; Content-Length within the maximum; Content-Type
\* multipart/form-data with a boundary) and reports the first that fails as
\* a failure of its own: the error response names exactly one of
\* InvalidToken, Expired, AlreadyUsed, TooLarge, Malformed, the right one.
C11_FirstFailureDistinct ==
    [][\A token \in Uploading, req \in UploadRequests :
          (POST_upload(token, req) /\ FirstFailure(token, req) # "None")
          => /\ resp'.code \in 400..499
             /\ Kinds(resp'.err) = {FirstFailure(token, req)}]_vars

\* C12: an upload with a valid pending token whose Content-Type is not
\* multipart/form-data, or lacks the boundary parameter, is rejected as
\* Malformed: an error response is sent, no file is written and the token
\* stays unused.
C12_MalformedRejected ==
    [][\A token \in Uploading, req \in UploadRequests :
          (Pending(token) /\ ~too_large(req.cl) /\ POST_upload(token, req)
             /\ (~req.ctype.multipart \/ ~req.ctype.boundary))
          => /\ Rejected(resp', "Malformed")
             /\ uploads' = uploads
             /\ Pending(token)']_vars

\* C13: the on-disk name of an upload never collides with the name of an
\* earlier one: any two successful uploads, through different tokens and
\* with the same client filename, are stored under different names, so no
\* upload overwrites another.
C13_StoredNamesDistinct ==
    \A t1, t2 \in DOMAIN accepted :
        \A i \in Successes(t1), j \in Successes(t2) :
            (t1 # t2) => accepted[t1][i].name # accepted[t2][j].name

\* the request that uploads the client file f and nothing else
UploadOf(f) == Request(1024, Multipart, <<FilePart(f[1], f[2])>>)

\* C14: scenario A on files_server.py, for every issued token T and every
\* client file base.ext of n bytes: right after the issue check(T) is
\* Pending; POST /upload/T on the pending token succeeds with the filename
\* base_<ts>.ext; afterwards check(T) is Used with that stored filename and
\* the stored file has exactly the n bytes of the client.
C14_ScenarioA ==
    [][variant = "files" =>
        /\ resp'.op \in {"create_token", "upload_link"}
             => check_upload(check_token(tokensFile', resp'.arg, now'),
                             uploads').status = "Pending"
        /\ \A token \in Uploading, f \in ClientFiles :
             (Pending(token) /\ POST_upload(token, UploadOf(f)))
             => LET stored == stamped(splitext(f[1]), now)
                    st == check_upload(check_token(tokensFile', token, now'),
                                       uploads')
                IN  /\ resp'.code = 200
                    /\ resp'.data.filename = stored
                    /\ st.status = "Used"
                    /\ st.filename = stored
                    /\ tokensFile'[token].size = Len(f[2])
                    /\ uploads'[stored] = f[2]]_vars

\* the files list of session sid holds filename
Lists(sess, sid, filename) ==
    sid \in DOMAIN sess
    /\ \E i \in 1..Len(sess[sid].files) : sess[sid].files[i] = filename

\* C15: scenario B on file_server.py, for every session S that
\* create_session returned and that has not expired: once
\* add_file_to_session(S, name, bytes) has succeeded, GET /S lists name and
\* GET on the URL the adder returned answers exactly the bytes; and every
\* GET of a listed file of such a session answers 200 with the file's bytes.
C15_ScenarioB ==
    [][/\ (/\ resp'.op = "add_file"
           /\ FS_add_file(resp'.arg, resp'.data.filename, resp'.data.bytes)
           /\ resp'.code = 200
           /\ resp'.arg \in DOMAIN sessionsFile
           /\ ~expired(now, sessionsFile[resp'.arg]))
          => LET page == fs_do_GET(sessionsFile', dirs',
                                   <<"/">> \o sidStr(resp'.arg), now')
                 file == fs_do_GET(sessionsFile', dirs', resp'.data.url, now')
             IN  /\ page.code = 200
                 /\ \E i \in 1..Len(page.data.files) :
                       page.data.files[i] = resp'.data.filename
                 /\ file.code = 200
                 /\ file.data.bytes = resp'.data.bytes
       /\ \A s \in DOMAIN sessionsFile, n \in FileNames :
             (/\ resp'.op = "GET"
              /\ resp'.data.path = session_url(s, n)
              /\ FS_GET(session_url(s, n))
              /\ ~expired(now, sessionsFile[s])
              /\ Lists(sessionsFile, s, n))
             => /\ resp'.code = 200
                /\ resp'.arg = s
                /\ resp'.data.page.bytes = dirs[SESSIONS_DIR][s][n]]_vars

\* a file whose name needs quoting has just been added to a registered,
\* unexpired session that already lists another file
C15_Witness ==
    /\ resp.op = "add_file"
    /\ resp.code = 200
    /\ resp.data.filename = <<"%", "2", "0">>
    /\ resp.arg \in DOMAIN sessionsFile
    /\ ~expired(now, sessionsFile[resp.arg])
    /\ Lists(sessionsFile, resp.arg, <<"f">>)
    /\ Lists(sessionsFile, resp.arg, <<"%", "2", "0">>)
    /\ dirs[SESSIONS_DIR][resp.arg][<<"%", "2", "0">>] = resp.data.bytes

\* the text has no '/'
NoSlash(text) == \A i \in 1..Len(text) : text[i] # "/"

\* the pair that decode returns for sid and filename
Decoded(sid, filename) == [ok |-> TRUE, sid |-> sid, filename |-> filename]

\* the key of the short_url of a successful /api/share response decodes to
\* the session id and the filename of that response
ShareKeyDecodes ==
    (resp.op = "share" /\ resp.code = 200)
    => decode_download_key(resp.data.short_url)
         = Decoded(sidStr(resp.data.session_id), resp.data.filename)

\* C16 as stated: decode(encode(sid, name)) = (sid, name) for all sid and
\* name without '/', and the key of a share response decodes to the
\* response's session id and filename.
C16_Original ==
    /\ (resp.op = "roundtrip"
          /\ NoSlash(resp.data.sid) /\ NoSlash(resp.data.filename))
         => resp.data.back = Decoded(resp.data.sid, resp.data.filename)
    /\ ShareKeyDecodes

\* C16, amended: decode(encode(sid, name)) = (sid, name) for all non-empty
\* sid and name without '/'; for an empty sid or name the decoder refuses
\* the key; and the key of a share response decodes to the response's
\* session id and filename.
C16_RoundTrip ==
    /\ (resp.op = "roundtrip"
          /\ NoSlash(resp.data.sid) /\ NoSlash(resp.data.filename))
         => IF resp.data.sid # <<>> /\ resp.data.filename # <<>>
            THEN resp.data.back = Decoded(resp.data.sid, resp.data.filename)
            ELSE ~resp.data.back.ok
    /\ ShareKeyDecodes

\* a pair with a non-ASCII name has made the round trip
C16_Witness ==
    /\ resp.op = "roundtrip"
    /\ resp.data.sid = <<"f">>
    /\ resp.data.filename = <<"U+233", "f">>
    /\ resp.data.back = Decoded(resp.data.sid, resp.data.filename)
    /\ decode_download_key(resp.data.key) = resp.data.back

\* the bytes a key stands for, and their text
KeyText(key) ==
    LET raw == urlsafe_b64decode(key \o [i \in 1..((4 - (Len(key) % 4)) % 4) |-> PAD],
                                 0, 0, 0, <<>>)
        text == utf8_decode(raw.bytes, <<>>)
    IN  [ok |-> raw.ok /\ text.ok
                 /\ \A i \in 1..Len(key) : key[i] # NONASCII,
         text |-> text.text]

\* C17: decode(key) fails, and GET /d/<key> answers with the Malformed error
\* instead of the bridge page, whenever base64 or UTF-8 decoding fails, the
\* decoded text has no '/', or a half of the split is empty; and every
\* successful decode gives a session id and a filename that are non-empty
\* and free of '/'.
C17_DecodeFailures ==
    resp.op = "d"
    => LET key == resp.data.key
           t == KeyText(key)
           halves == split1(t.text)
       IN  /\ (\/ key = <<>>
               \/ ~t.ok
               \/ NoSlash(t.text)
               \/ halves[1] = <<>>
               \/ halves[Len(halves)] = <<>>)
                 => /\ Rejected(resp, "Malformed")
                    /\ ~decode_download_key(key).ok
           /\ resp.code # 400
                 => /\ resp.code = 200
                    /\ decode_download_key(key).ok
                    /\ resp.data.pair.sid # <<>>
                    /\ resp.data.pair.filename # <<>>
                    /\ NoSlash(resp.data.pair.sid)
                    /\ NoSlash(resp.data.pair.filename)

\* a key whose filename half had a directory in front has been decoded to
\* the bare filename
C17_Witness ==
    /\ resp.op = "d"
    /\ resp.code = 200
    /\ KeyText(resp.data.key).text = <<"f", "/", "/", "f">>
    /\ resp.data.pair = [sid |-> <<"f">>, filename |-> <<"f">>]


\* C18: add_file_to_session(sid, name, bytes) on file_server.py answers
\* "not found" when the session is not registered or its expiry time has
\* passed (swept or not), and then leaves every session directory and the
\* registry as they were.
C18_AddToDeadSession ==
    [][\A n \in FileNames, c \in Contents :
          (/\ resp'.op = "add_file"
           /\ FS_add_file(resp'.arg, n, c)
           /\ \/ resp'.arg \notin DOMAIN sessionsFile
              \/ expired(now, sessionsFile[resp'.arg]))
          => /\ resp'.code = 404
             /\ dirs' = dirs
             /\ sessionsFile' = sessionsFile]_vars

\* C19: in the registry of file_server.py no files list holds a filename
\* twice, whatever calls of add_file_to_session have been made.
C19_FilesListedOnce ==
    \A s \in DOMAIN sessionsFile :
        \A i, j \in 1..Len(sessionsFile[s].files) :
            sessionsFile[s].files[i] = sessionsFile[s].files[j] => i = j

\* C20: share_directory(path, pattern) answers "Directory not found" when
\* path is not a directory and "No files matching pattern" when no file of
\* the directory matches the pattern, and in both cases registers no session
\* and leaves no session directory behind; otherwise the session it
\* registers lists at least one file.
C20_ShareDirectory ==
    [][\A p \in SourcePaths, pat \in Patterns :
          (/\ resp'.op = "share_directory"
           /\ resp'.data.dir = p
           /\ resp'.data.pattern = pat
           /\ T_share_directory(p, pat))
          => LET nofile == \A e \in glob(p, pat) : e.kind # "file"
                 fresh == /\ DOMAIN sessionsFile' \subseteq DOMAIN sessionsFile
                          /\ DOMAIN dirs'[SESSIONS_DIR]
                                \subseteq DOMAIN dirs[SESSIONS_DIR]
             IN  IF ~source_isdir(p)
                 THEN resp'.err = "Directory not found" /\ fresh
                 ELSE IF nofile
                 THEN resp'.err = "No files matching pattern" /\ fresh
                 ELSE /\ resp'.err = "Shared"
                      /\ resp'.data.sid \in DOMAIN sessionsFile'
                      /\ sessionsFile'[resp'.data.sid].files # <<>>]_vars


\* the page of GET /<sid> for the registry sess
SessionPage(sess, sid) ==
    IF variant = "files" THEN show_session(sess, dirs, sid)
    ELSE list_session_files(sess, dirs, sid)

\* C21: a save replaces sessions.json atomically: a GET /<sid> answered
\* while the MCP server saves the registry is answered from the complete
\* document as it was before the save or as it is after it.
C21_AtomicReplace ==
    [][\A sid \in SessionIds :
          (/\ resp'.op = "get_session"
           /\ resp'.arg = sid
           /\ D_get_session(sid))
          => LET answer == [code |-> resp'.code, err |-> resp'.err,
                            data |-> resp'.data]
             IN  \/ answer = SessionPage(sessionsFile, sid)
                 \/ Dumping /\ answer = SessionPage(ms.sessions, sid)]_vars

\* C23: load is fail-open: a GET /<sid> that finds sessions.json absent or
\* not parsable is answered as if the registry were empty, and is answered.
C23_LoadFailOpen ==
    [][\A sid \in SessionIds :
          (/\ resp'.op = "get_session"
           /\ resp'.arg = sid
           /\ D_get_session(sid)
           /\ (~Document.exists \/ ~Document.parsable))
          => /\ resp'.code = SessionPage(EmptyMap, sid).code
             /\ resp'.err = SessionPage(EmptyMap, sid).err]_vars


\* C22: the sweeps exclude the handlers that load, change and save
\* sessions.json: the save of a sweep leaves every unexpired session of the
\* registry in place with its record, and no save brings back into the
\* registry a session that a sweep has removed.
C22_SweepExcluded ==
    [][/\ (\/ hs.pc = "sweep_save" /\ H_sweep_save
           \/ ms.pc = "sweep_save" /\ M_sweep_save)
          => \A s \in DOMAIN sessionsFile :
                 ~expired(now, sessionsFile[s])
                 => /\ s \in DOMAIN sessionsFile'
                    /\ sessionsFile'[s] = sessionsFile[s]
       /\ \A s \in swept :
             s \notin DOMAIN sessionsFile => s \notin DOMAIN sessionsFile']_vars


\* C24: expiry is the only way a session goes: a step removes a session from
\* sessions.json, or its directory from the disk, only when now > expires,
\* and no step changes the creation or expiry time of a session that stays
\* in the registry.
C24_OnlyExpiryDeletes ==
    [][/\ \A s \in DOMAIN sessionsFile :
             IF s \in DOMAIN sessionsFile'
             THEN /\ sessionsFile'[s].created = sessionsFile[s].created
                  /\ sessionsFile'[s].expires = sessionsFile[s].expires
             ELSE expired(now, sessionsFile[s])
       /\ \A s \in DOMAIN dirs[SESSIONS_DIR] \ DOMAIN dirs'[SESSIONS_DIR] :
             s \in DOMAIN sissued /\ now > sissued[s]]_vars


\* C25: a sweep of tokens.json (at the start of the server and at the head
\* of POST /api/create_token) removes every token with now > expires, used
\* or not, and leaves every other token in the registry with its record.
C25_SweepExact ==
    [][(Startup \/ POST_create_token)
          => \A t \in DOMAIN tokensFile :
                 IF expired(now, tokensFile[t])
                 THEN t \notin DOMAIN tokensFile'
                 ELSE /\ t \in DOMAIN tokensFile'
                      /\ tokensFile'[t] = tokensFile[t]]_vars

\* a sweep has removed a token that was used and has kept a token whose
\* expiry has not passed
C25_Witness ==
    /\ \E t \in DOMAIN accepted \ DOMAIN tokensFile : accepted[t] # <<>>
    /\ \E u \in DOMAIN tokensFile : ~expired(now, tokensFile[u])


\* C26: every upload that is not accepted is answered with a 4xx status and
\* an error of the taxonomy, or with a 5xx status when the handler failed;
\* it is never left without a response. A GET /upload/<token> that shows
\* the error page is answered with a 4xx status, never with 200.
C26_FailuresSurfaced ==
    /\ resp.op = "upload"
          => \/ resp.code = 200
             \/ resp.code \in 400..499 /\ Kinds(resp.err) # {}
             \/ resp.code \in 500..599
    /\ (resp.op = "upload_page" /\ resp.data.page = "error")
          => resp.code \in 400..499


\* C27: POST /api/share draws a session id that the registry does not hold;
\* when it answers with success, the registry holds that session with the
\* file list [filename] and the session directory holds the file; when it
\* answers with an error, the session it names, if any, is not registered,
\* and a request without a filename or without a source changes nothing.
C27_ShareCreates ==
    [][/\ (hs.pc = "share_load" /\ hs'.pc = "share_save")
          => hs'.sid \notin DOMAIN sessionsFile
       /\ (resp.op = "none" /\ resp'.op = "share")
          => IF resp'.code = 200
             THEN /\ resp'.data.session_id \in DOMAIN sessionsFile'
                  /\ sessionsFile'[resp'.data.session_id].files
                        = <<resp'.data.filename>>
                  /\ isfile(dirs', resp'.data.session_id, resp'.data.filename)
             ELSE /\ resp'.arg \notin DOMAIN sessionsFile'
                  /\ resp'.code \in {400, 404}
                        => sessionsFile' = sessionsFile /\ dirs' = dirs]_vars


\* C28: GET /upload/<token> shows the upload form if and only if the token
\* is registered, unexpired and unused, and the error page otherwise; it
\* leaves tokens.json and the uploads as they are, so it never marks the
\* token used.
C28_FormIffPending ==
    [][\A token \in TokenIds :
          (/\ resp'.op = "upload_page"
           /\ resp'.arg = token
           /\ GET_upload(token))
          => /\ resp'.data.page = (IF Pending(token) THEN "form" ELSE "error")
             /\ tokensFile' = tokensFile
             /\ uploads' = uploads]_vars

\* the error page has been shown for a token that is registered, unexpired
\* and used
C28_Witness ==
    /\ resp.op = "upload_page"
    /\ resp.data.page = "error"
    /\ Live(resp.arg)
    /\ is_used(tokensFile[resp.arg])


\* C29: every token and every session of the registries has expires >
\* created; POST /api/create_token registers the new token with used =
\* false, created = now and expires = now + 30 minutes; create_session
\* registers the new session with an empty file list, created = now and
\* expires = now + 24 hours.
C29_FreshRecords ==
    [][/\ \A t \in DOMAIN tokensFile' :
             tokensFile'[t].expires > tokensFile'[t].created
       /\ \A s \in DOMAIN sessionsFile' :
             sessionsFile'[s].expires > sessionsFile'[s].created
       /\ (resp'.op = "create_token" /\ POST_create_token)
          => /\ resp'.arg \notin DOMAIN tokensFile
             /\ tokensFile'[resp'.arg].used = FALSE
             /\ tokensFile'[resp'.arg].created = now
             /\ tokensFile'[resp'.arg].expires = now + 30 * 60
       /\ (resp'.op = "create_session" /\ FS_create_session)
          => /\ resp'.arg \notin DOMAIN sessionsFile
             /\ sessionsFile'[resp'.arg].files = <<>>
             /\ sessionsFile'[resp'.arg].created = now
             /\ sessionsFile'[resp'.arg].expires = now + 24 * 3600]_vars

\* a session has just been created, after the start, while a token issued
\* at another moment is registered
C29_Witness ==
    /\ resp.op = "create_session"
    /\ resp.arg \in DOMAIN sessionsFile
    /\ now > 0
    /\ \E t \in DOMAIN tokensFile : tokensFile[t].created # now


\* C30: an upload on a pending token takes the file from the first part of
\* the body that holds a filename="..." attribute and a blank line after its
\* headers: the bytes of that part are stored; if there is no such part, or
\* its filename is empty, the answer is "No file in request", nothing is
\* written and the token stays unused.
C30_FirstFilePart ==
    [][\A token \in Uploading, req \in MultipartRequests :
          (Pending(token) /\ POST_upload(token, req))
          => LET I == {i \in 1..Len(req.body) :
                          req.body[i].attr = "quoted" /\ req.body[i].sep}
             IN  IF I = {} \/ req.body[Min(I)].filename = <<>>
                 THEN /\ Rejected(resp', "Malformed")
                      /\ resp'.err = "No file in request"
                      /\ uploads' = uploads
                      /\ Pending(token)'
                 ELSE /\ resp'.code = 200
                      /\ uploads'[resp'.data.filename]
                            = SubSeq(req.body[Min(I)].data, 1,
                                     Len(req.body[Min(I)].data) - 2)]_vars

\* C31: the bytes stored for an upload are the bytes of the file part up to
\* the line break that closes the part: for every file content, also one
\* that ends in CR, LF or '-' bytes, a successful upload on a pending token
\* stores the client's bytes and records their number as the size.
C31_StoredBytesExact ==
    [][\A token \in Uploading, c \in TailContents :
          (Pending(token) /\ POST_upload(token, UploadBytes(c)))
          => /\ resp'.code = 200
             /\ uploads'[resp'.data.filename] = c
             /\ tokensFile'[token].size = Len(c)]_vars

\* a name that os.path.join(UPLOADS_DIR, name) resolves to an entry of the
\* uploads directory itself: not empty, not '.', not '..', no separator
Plain(name) ==
    /\ name # <<>>
    /\ name \notin {<<".">>, <<".", ".">>}
    /\ \A i \in 1..Len(name) : name[i] # "/"

\* C32: path traversal through the upload filename is impossible: for every
\* filename of the client, whatever '/' and '..' components it has, an
\* upload on a pending token writes one file, directly inside the uploads
\* directory under a non-empty name without directory components; every
\* other file of the uploads directory and every session directory is left
\* as it was.
C32_NoTraversal ==
    [][\A token \in Uploading, n \in TraversalNames :
          (Pending(token) /\ POST_upload(token, UploadNamed(n)))
          => LET stored == resp'.data.filename
             IN  /\ resp'.code = 200
                 /\ Plain(stored)
                 /\ DOMAIN uploads' = DOMAIN uploads \cup {stored}
                 /\ \A f \in DOMAIN uploads \ {stored} : uploads'[f] = uploads[f]
                 /\ \A f \in DOMAIN uploads' : Plain(f)
                 /\ dirs' = dirs]_vars

\* an upload whose filename was nothing but '..' components has been stored:
\* as .._<ts> by files_server.py, as upload_<ts>_<ts> by unified_server.py
C32_Witness ==
    /\ resp.op = "upload"
    /\ resp.code = 200
    /\ resp.data.filename \in {<<".", ".", "_", "0">>, stamped(<<uploadName(0), <<>>>>, 0)}
    /\ resp.data.filename \in DOMAIN uploads

\* C33: a rejected upload changes nothing. When POST /upload/T on a pending
\* token fails (the request is too large, is not multipart, has no boundary
\* or holds no file), tokens.json and the uploads directory are as before
\* and T is still pending: a well-formed upload through T, at once or at any
\* time up to its expiry, succeeds.
C33_RejectedChangesNothing ==
    [][\A token \in Uploading :
          (Pending(token) /\ resp'.code # 200)
          => /\ tokensFile' = tokensFile
             /\ uploads' = uploads
             /\ Pending(token)'
             /\ \A f \in ClientFiles, clock \in {now', tokensFile'[token].expires} :
                   server_upload(tokensFile', uploads', token, UploadOf(f), clock).code
                      = 200]_vars

\* an upload through a pending token has just been refused for its size or
\* for its form
C33_Witness ==
    /\ resp.op = "upload"
    /\ Rejected(resp, "TooLarge") \/ Rejected(resp, "Malformed")
    /\ Pending(resp.arg)

\* every thread of the Flask server waits for a request
AllIdle == \A w \in Workers : wk[w].pc = "idle"

\* C34: every file the upload handler wrote is accounted for by its token.
\* Whenever no request is being handled: each upload that wrote a file was
\* answered with success, and its token, while it is registered, is used
\* and records the name of that file; and no two used tokens record the
\* same stored filename.
C34_FilesAccounted ==
    AllIdle =>
        /\ \A t \in DOMAIN accepted :
              \A i \in 1..Len(accepted[t]) :
                 /\ accepted[t][i].ok
                 /\ t \in DOMAIN tokensFile
                       => /\ is_used(tokensFile[t])
                          /\ tokensFile[t].filename = accepted[t][i].name
        /\ \A t1, t2 \in DOMAIN tokensFile :
              (t1 # t2 /\ is_used(tokensFile[t1]) /\ is_used(tokensFile[t2]))
              => tokensFile[t1].filename # tokensFile[t2].filename

\* the status of the token as the check reads it, and its place in the
\* life of a token
Status(toks, ups, token, clock) ==
    check_upload(check_token(toks, token, clock), ups).status

Rank(status) ==
    CASE status = "Pending" -> 1
      [] status = "Used" -> 2
      [] status = "Expired" -> 3
      [] status = "NotFound" -> 4

\* C35: the status of an issued token, as check reads it, only moves forward
\* along Pending, Used, Expired, NotFound: no step takes it back to an
\* earlier status, an expired token reads as Expired whether it was used or
\* not, and a token that has been reaped reads as NotFound from then on.
C35_StatusMovesForward ==
    [][\A token \in DOMAIN issued :
          LET before == Status(tokensFile, uploads, token, now)
              after == Status(tokensFile', uploads', token, now')
          IN  /\ after \in {"Pending", "Used", "Expired", "NotFound"}
              /\ Rank(after) >= Rank(before)
              /\ (token \in DOMAIN tokensFile' /\ expired(now', tokensFile'[token]))
                    => after = "Expired"
              /\ token \notin DOMAIN tokensFile => after = "NotFound"]_vars

\* a token that was used by an upload has expired and has been reaped
C35_Witness ==
    \E token \in DOMAIN issued :
        /\ Consumed(token)
        /\ now > issued[token]
        /\ token \notin DOMAIN tokensFile
        /\ Status(tokensFile, uploads, token, now) = "NotFound"

\* C36: registry and storage agree for sessions. Whenever no operation is
\* in progress, every session of sessions.json has its directory, every
\* name of its files list is a file of that directory, and every file that
\* a tool placed in the directory of a registered session is in the files
\* list of that session.
C36_RegistryMatchesStorage ==
    (hs.pc = "idle" /\ ms.pc = "idle") =>
        \A sid \in DOMAIN sessionsFile :
            /\ sid \in DOMAIN dirs[SESSIONS_DIR]
            /\ \A i \in 1..Len(sessionsFile[sid].files) :
                  isfile(dirs, sid, sessionsFile[sid].files[i])
            /\ \A n \in DOMAIN dirs[SESSIONS_DIR][sid] : Lists(sessionsFile, sid, n)

\* the tokens that a sweep of the server at this instant removes
ReapedTokens ==
    DOMAIN tokensFile \
        DOMAIN (IF variant = "files" THEN cleanup_tokens(tokensFile, now)
                ELSE cleanup_expired_tokens(tokensFile, now))

\* the handlers of the tokens treat the registered token as expired
TokenAgreed(t) ==
    LET reaped == t \in ReapedTokens
        page == IF variant = "files" THEN show_upload_page(tokensFile, t, now)
                ELSE unified_upload_page(tokensFile, t, now)
    IN  /\ reaped <=> (now > tokensFile[t].expires)
        /\ check_token(tokensFile, t, now).expired <=> reaped
        /\ ~is_used(tokensFile[t])
              => /\ (server_upload(tokensFile, uploads, t,
                                   Request(1024, Multipart, AFile), now).code # 200)
                       <=> reaped
                 /\ (page.page = "error") <=> reaped
                 /\ (~use_token(tokensFile, t, now).valid) <=> reaped

\* the session route treats the registered session as expired
SessionAgreed(s) ==
    LET reaped == s \in server_cleanup(sessionsFile, dirs, now).dead
        page == IF variant = "files" THEN show_session(sessionsFile, dirs, s)
                ELSE list_session_files(sessionsFile, dirs, s)
    IN  /\ reaped <=> (now > sessionsFile[s].expires)
        /\ (page.code = 404) <=> reaped

\* C37: the handlers and the sweep agree on what expired means. At every
\* instant, for every registered token and every registered session that
\* has its directory: upload, check, the upload form and the session page
\* treat the entry as expired exactly when a sweep at that instant would
\* remove it, which is when now > expires; at now = expires the entry is
\* accepted by the handlers and kept by the sweep.
C37_ExpiryAgreed ==
    /\ \A t \in DOMAIN tokensFile : TokenAgreed(t)
    /\ \A s \in DOMAIN sessionsFile :
          s \in DOMAIN dirs[SESSIONS_DIR] => SessionAgreed(s)

\* the sweep of tokens.json of the HTTP server
server_cleanup_tokens(toks, clock) ==
    IF variant = "files" THEN cleanup_tokens(toks, clock)
    ELSE cleanup_expired_tokens(toks, clock)

\* no token and no session has expired
NothingExpired ==
    /\ overdue(sessionsFile, now) = {}
    /\ \A t \in DOMAIN tokensFile : ~expired(now, tokensFile[t])

\* the step leaves the entries that have not expired, and the directories
\* of the sessions that have not expired, as they were
KeepsTheLiving ==
    /\ \A t \in DOMAIN tokensFile :
          ~expired(now, tokensFile[t])
          => t \in DOMAIN tokensFile' /\ tokensFile'[t] = tokensFile[t]
    /\ \A s \in DOMAIN sessionsFile \ overdue(sessionsFile, now) :
          /\ s \in DOMAIN sessionsFile' /\ sessionsFile'[s] = sessionsFile[s]
          /\ s \in DOMAIN dirs[SESSIONS_DIR]
                => /\ s \in DOMAIN dirs'[SESSIONS_DIR]
                   /\ dirs'[SESSIONS_DIR][s] = dirs[SESSIONS_DIR][s]

\* C38: the sweep is idempotent and touches only expired entries. After a
\* sweep (the start of the HTTP server, a tool call of the MCP share
\* server), the same sweep at the same instant changes neither registry nor
\* any directory; a sweep leaves every entry that has not expired, and its
\* directory, as it was; a sweep at a time when nothing has expired leaves
\* both registries and all directories unchanged.
C38_SweepIdempotent ==
    [][/\ Startup
          => LET again == server_cleanup(sessionsFile', dirs', now')
             IN  /\ again.sessions = sessionsFile'
                 /\ again.dirs = dirs'
                 /\ server_cleanup_tokens(tokensFile', now') = tokensFile'
                 /\ KeepsTheLiving
                 /\ NothingExpired => UNCHANGED <<tokensFile, sessionsFile, dirs>>
       /\ T_list_sessions
          => LET again == share_cleanup_expired_sessions(sessionsFile', dirs', now')
             IN  /\ again.sessions = sessionsFile'
                 /\ again.dirs = dirs'
                 /\ KeepsTheLiving
                 /\ NothingExpired => UNCHANGED <<tokensFile, sessionsFile, dirs>>]_vars

\* every session id has been drawn; a sweep has removed an expired session
\* and an expired token and has kept a session whose expiry has not passed
C38_Witness ==
    /\ Idle
    /\ Cardinality(DOMAIN sissued) = MaxSessions
    /\ swept # {}
    /\ \E s \in DOMAIN sessionsFile : ~expired(now, sessionsFile[s])
    /\ \E t \in DOMAIN issued : t \notin DOMAIN tokensFile

\* the requests that only read
ReadOps == {"check", "get_session", "get_file", "d", "health"}

\* C39: the read-only requests have no effect on state: the check of a
\* token (GET or POST /api/check/<token>), GET /<sid>, GET /<sid>/<filename>,
\* GET /d/<key> and GET /health leave tokens.json, sessions.json, the session directories and
\* the uploads directory unchanged.
C39_ReadsChangeNothing ==
    [][resp'.op \in ReadOps
          => UNCHANGED <<tokensFile, sessionsFile, dirs, uploads>>]_vars

\* a check is being answered for a registered token that has expired, while
\* a session, its file and an upload are on disk
C39_Witness ==
    /\ resp.op = "check"
    /\ resp.code = 200
    /\ resp.arg \in DOMAIN tokensFile
    /\ expired(now, tokensFile[resp.arg])
    /\ sessionsFile # EmptyMap
    /\ \E s \in DOMAIN dirs[SESSIONS_DIR] : dirs[SESSIONS_DIR][s] # EmptyMap
    /\ uploads # EmptyMap

====
